---------------------------- MODULE Spec2Model ----------------------------
(***************************************************************************)
(* Model of the BootForge USB core: the DFU client (protocols/dfu.rs), the *)
(* bulk transfer helpers (communication/bulk.rs), the interrupt poller     *)
(* (communication/interrupt.rs), the protocol classifier (handshake/), the *)
(* device scan (enumerate/) and the DFU parsers (protocols/dfu.rs).        *)
(*                                                                         *)
(* The device handle is the environment: every control or bulk transfer   *)
(* either fails with a transport error or completes with data the device  *)
(* chooses.  One action is one transfer together with the sequential code *)
(* that follows it up to the next transfer.  `wire` is a history variable:*)
(* the requests issued on the handle, the sleeps and the progress         *)
(* callbacks of the operation in progress (or of the last one), in order. *)
(* `last`, `all_ready` and `mock` are history variables too: they record  *)
(* what the device answered, and no action reads them.                     *)
(***************************************************************************)
EXTENDS Integers, Sequences, FiniteSets, TLC

VARIABLES
    transfer_size,  \* DfuClient.transfer_size
    state,          \* DfuClient.state, the cached device state
    pc,             \* position of the DFU client's calling thread
    op,             \* the DFU operation in progress, or the last one
    result,         \* what the last DFU operation returned
    firmware,       \* download(): the firmware argument
    has_cb,         \* download()/upload(): progress is Some(..)
    offset,         \* download(): local offset
    block_num,      \* download()/upload(): local block_num (u16)
    max_size,       \* upload(): the max_size argument
    up_firmware,    \* upload(): local firmware Vec
    polls,          \* passes of the wait loop in progress that ended in a sleep
    wire,           \* history of the operation: requests, sleeps, callbacks
    last,           \* history: the answer to the operation's latest GETSTATUS/GETSTATE
    all_ready,      \* history: the device has behaved as a ready device so far
    mock,           \* history: the device has behaved as the busy-once mock so far
    max_retries,    \* BulkTransfer.max_retries
    b_pc,           \* position of the bulk helper's calling thread
    b_op,           \* "read" or "write_single"
    b_endpoint,     \* the endpoint argument
    b_attempt,      \* the retry loop's attempt counter
    b_calls,        \* history: outcome of each underlying bulk call
    b_sleeps,       \* history: the backoff sleeps, in ms
    b_result,       \* what the last bulk operation returned
    x_pc,           \* position of the caller of BulkTransfer::write / read_exact
    x_op,           \* "write" or "read_exact"
    x_has_chunk,    \* BulkTransfer.chunk_size is Some(..)
    x_chunk,        \* BulkTransfer.chunk_size, when it is Some
    x_len,          \* buf.len()
    x_off,          \* offset of the slice in hand (read_exact: total_read)
    x_req,          \* length of the slice in hand (read_exact: to_read)
    x_total,        \* write_chunked: total_written
    x_ios,          \* history: the underlying bulk calls of the operation
    x_result,       \* what the last write / read_exact returned
    w_size,         \* BulkWriter.buffer_size
    w_buffer,       \* BulkWriter.buffer
    w_alive,        \* the BulkWriter has not been dropped
    w_pc,           \* position of the BulkWriter's calling thread
    w_op,           \* "write", "write_line", "flush" or "drop"
    w_stage,        \* write_line: "line", "nl" or "flush"
    w_rest,         \* write: the bytes of buf not yet visited by the for loop
    w_in,           \* history: the bytes passed to write(), in order
    w_out,          \* history: the device writes, payload and outcome
    w_result,       \* what the last BulkWriter operation returned
    r_size,         \* BulkReader: buffer.len(), the buffer_size it was built with
    r_buffer,       \* BulkReader: buffer[..buffer_len]
    r_pos,          \* BulkReader.buffer_pos
    r_pc,           \* position of the BulkReader's calling thread
    r_op,           \* "read" or "read_line"
    r_want,         \* read: buf.len()
    r_got,          \* read: buf[..written]
    r_line,         \* read_line: the local line
    r_zero,         \* history: the call in progress has had a zero-length device read
    r_clean,        \* history: no device read has failed so far
    r_start,        \* history: the stream position at which the call began
    r_dev,          \* history: the bytes the device reads have returned, in order
    r_out,          \* history: the bytes read() has delivered, in order
    r_result,       \* what the last BulkReader operation returned
    p_size,         \* InterruptPoller.buffer_size
    p_running,      \* InterruptPoller.running, the shared AtomicBool
    p_pc,           \* position of the thread inside poll()
    p_buffer,       \* poll: the local buffer
    p_bytes,        \* poll: the length the latest successful read returned
    p_reads,        \* history: the interrupt reads poll() has issued
    p_log,          \* history: reads, their outcomes and the callbacks, in order
    p_stop_at,      \* history: where poll() was at the first stop() during its loop
    p_after,        \* history: the reads issued since that stop()
    p_early,        \* history: a stop() came after poll() was entered, before its store(true)
    p_result,       \* what the last poll() returned
    c_rec,          \* the UsbDeviceRecord in hand
    c_result,       \* what classify_device_protocols returned for it
    c_pc,           \* "new", or "classified" once classify has returned for c_rec
    c_prev_result,  \* history: what classify returned for that record
    c_added,        \* history: the tag the latest add_tag was called with
    e_kind,         \* the scan in progress: "fallback" or "libusb"
    e_pc,           \* position of the scan's calling thread
    e_transport,    \* history: what obtaining the context and the device list gave
    e_n,            \* the number of devices in the device list
    e_seen,         \* history: what probing each device met, in list order
    e_records,      \* the local records / devices Vec
    e_result,       \* what the last scan returned
    q_op,           \* the parser applied: "status", "functional" or "state"
    q_data,         \* the bytes given to the parser
    q_done,         \* the parser has returned
    q_out           \* what the parser returned

dfu_vars == <<transfer_size, state, pc, op, result, firmware, has_cb, offset,
              block_num, max_size, up_firmware, polls, wire, last, all_ready, mock>>
bulk_vars == <<max_retries, b_pc, b_op, b_endpoint, b_attempt, b_calls, b_sleeps, b_result>>
xfer_vars == <<x_pc, x_op, x_has_chunk, x_chunk, x_len, x_off, x_req, x_total, x_ios, x_result>>

writer_vars == <<w_size, w_buffer, w_alive, w_pc, w_op, w_stage, w_rest, w_in, w_out, w_result>>

reader_vars == <<r_size, r_buffer, r_pos, r_pc, r_op, r_want, r_got, r_line, r_zero,
                 r_clean, r_start, r_dev, r_out, r_result>>

poller_vars == <<p_size, p_running, p_pc, p_buffer, p_bytes, p_reads, p_log, p_stop_at,
                 p_after, p_early, p_result>>

class_vars == <<c_rec, c_pc, c_result, c_prev_result, c_added>>

scan_vars == <<e_kind, e_pc, e_transport, e_n, e_seen, e_records, e_result>>

parse_vars == <<q_op, q_data, q_done, q_out>>

\* the scan and the parsers together
tail_vars == <<scan_vars, parse_vars>>

\* the components other than the DFU client and the retrying bulk calls
ext_vars == <<xfer_vars, writer_vars, reader_vars, poller_vars, class_vars, tail_vars>>
\* what the actions of one component leave alone
not_xfer == <<dfu_vars, writer_vars, reader_vars, poller_vars, class_vars, tail_vars>>
not_writer == <<dfu_vars, bulk_vars, xfer_vars, reader_vars, poller_vars, class_vars,
               tail_vars>>
not_reader == <<dfu_vars, bulk_vars, xfer_vars, writer_vars, poller_vars, class_vars,
               tail_vars>>
not_poller == <<dfu_vars, bulk_vars, xfer_vars, writer_vars, reader_vars, class_vars,
               tail_vars>>
not_class == <<dfu_vars, bulk_vars, xfer_vars, writer_vars, reader_vars, poller_vars,
               tail_vars>>
not_scan == <<dfu_vars, bulk_vars, xfer_vars, writer_vars, reader_vars, poller_vars,
              class_vars, parse_vars>>
not_parse == <<dfu_vars, bulk_vars, xfer_vars, writer_vars, reader_vars, poller_vars,
               class_vars, scan_vars>>

vars == <<dfu_vars, bulk_vars, ext_vars>>

----------------------------------------------------------------------------
(* Bounds of the model.                                                    *)

MaxFw == 3          \* longest firmware image passed to download()
MaxT == 2           \* largest negotiated transfer size
MaxPolls == 2       \* GETSTATUS polls allowed in one wait loop
MaxBlocks == 3      \* data blocks allowed in one download()/upload()
MaxUp == 3          \* largest max_size passed to upload()
MaxRetriesBound == 3 \* largest max_retries configured
MaxLen == 2         \* largest byte count a bulk call reports
MaxBuf == 3         \* longest buffer passed to write() / read_exact()
MaxChunk == 2       \* largest chunk size configured
MaxXferRetries == 1 \* largest max_retries configured for write() / read_exact()
MaxCap == 2         \* largest BulkWriter buffer_size
MaxWrite == 2       \* longest buf passed to BulkWriter::write / write_line
MaxIn == 4          \* bytes passed to one BulkWriter in all
MaxFail == 2        \* device writes of one BulkWriter that fail or come back short
MaxRBuf == 2        \* largest BulkReader buffer_size
MaxWant == 2        \* longest buf passed to BulkReader::read
MaxStream == 3      \* bytes the device hands to one BulkReader in all
MaxPBuf == 2        \* largest InterruptPoller buffer_size
MaxPollReads == 2   \* interrupt reads one poll() call issues while the flag stays set
MaxTags == 2        \* tags added to one device record
MaxDevs == 2        \* devices in the list a scan walks
MaxStatusLen == 7   \* longest buffer given to DfuStatusResponse::from_bytes
MaxDescLen == 10    \* longest buffer given to DfuFunctionalDescriptor::from_bytes

Min(a, b) == IF a < b THEN a ELSE b

----------------------------------------------------------------------------
(* protocols/dfu.rs: enumerations and the status response.                 *)

DETACH == 0
DNLOAD == 1
UPLOAD == 2
GETSTATUS == 3
CLRSTATUS == 4
GETSTATE == 5
ABORT == 6

DfuState_from_byte(b) ==
    CASE b = 0 -> "AppIdle"
      [] b = 1 -> "AppDetach"
      [] b = 2 -> "DfuIdle"
      [] b = 3 -> "DfuDnloadSync"
      [] b = 4 -> "DfuDnBusy"
      [] b = 5 -> "DfuDnloadIdle"
      [] b = 6 -> "DfuManifestSync"
      [] b = 7 -> "DfuManifest"
      [] b = 8 -> "DfuManifestWaitReset"
      [] b = 9 -> "DfuUploadIdle"
      [] OTHER -> "DfuError"

DfuState_name(s) ==
    CASE s = "AppIdle" -> "appIDLE"
      [] s = "AppDetach" -> "appDETACH"
      [] s = "DfuIdle" -> "dfuIDLE"
      [] s = "DfuDnloadSync" -> "dfuDNLOAD-SYNC"
      [] s = "DfuDnBusy" -> "dfuDNBUSY"
      [] s = "DfuDnloadIdle" -> "dfuDNLOAD-IDLE"
      [] s = "DfuManifestSync" -> "dfuMANIFEST-SYNC"
      [] s = "DfuManifest" -> "dfuMANIFEST"
      [] s = "DfuManifestWaitReset" -> "dfuMANIFEST-WAIT-RESET"
      [] s = "DfuUploadIdle" -> "dfuUPLOAD-IDLE"
      [] OTHER -> "dfuERROR"

DfuStatus_from_byte(b) ==
    CASE b = 0 -> "Ok"
      [] b = 1 -> "ErrTarget"
      [] b = 2 -> "ErrFile"
      [] b = 3 -> "ErrWrite"
      [] b = 4 -> "ErrErase"
      [] b = 5 -> "ErrCheckErased"
      [] b = 6 -> "ErrProg"
      [] b = 7 -> "ErrVerify"
      [] b = 8 -> "ErrAddress"
      [] b = 9 -> "ErrNotdone"
      [] b = 10 -> "ErrFirmware"
      [] b = 11 -> "ErrVendor"
      [] b = 12 -> "ErrUsbr"
      [] b = 13 -> "ErrPor"
      [] b = 14 -> "ErrUnknown"
      [] OTHER -> "ErrStalledPkt"

DfuStatus_name(s) ==
    CASE s = "Ok" -> "OK"
      [] s = "ErrTarget" -> "errTARGET"
      [] s = "ErrFile" -> "errFILE"
      [] s = "ErrWrite" -> "errWRITE"
      [] s = "ErrErase" -> "errERASE"
      [] s = "ErrCheckErased" -> "errCHECK_ERASED"
      [] s = "ErrProg" -> "errPROG"
      [] s = "ErrVerify" -> "errVERIFY"
      [] s = "ErrAddress" -> "errADDRESS"
      [] s = "ErrNotdone" -> "errNOTDONE"
      [] s = "ErrFirmware" -> "errFIRMWARE"
      [] s = "ErrVendor" -> "errVENDOR"
      [] s = "ErrUsbr" -> "errUSBR"
      [] s = "ErrPor" -> "errPOR"
      [] s = "ErrUnknown" -> "errUNKNOWN"
      [] OTHER -> "errSTALLEDPKT"

DfuStatus_is_ok(s) == s = "Ok"

\* DfuState in the order of the enum; the numeric value of a state is its
\* position less one
DfuStates ==
    <<"AppIdle", "AppDetach", "DfuIdle", "DfuDnloadSync", "DfuDnBusy", "DfuDnloadIdle",
      "DfuManifestSync", "DfuManifest", "DfuManifestWaitReset", "DfuUploadIdle", "DfuError">>

\* state as u8
DfuState_value(s) == (CHOOSE i \in 1..Len(DfuStates) : DfuStates[i] = s) - 1

\* faulty variant of DfuState_is_dfu_mode: only AppIdle is application mode
DfuState_is_dfu_mode_Idle(s) == s # "AppIdle"
\* DfuState::is_dfu_mode
DfuState_is_dfu_mode(s) == s \notin {"AppIdle", "AppDetach"}

\* faulty variant of DfuStatusResponse_from_bytes: the fourth byte of the
\* timeout is taken from the buffer
DfuStatusResponse_from_bytes_Wide(data) ==
    IF Len(data) < 6
    THEN [parsed |-> FALSE, status |-> "-", poll_timeout |-> 0, state |-> "-",
          i_string |-> 0]
    ELSE [parsed |-> TRUE,
          status |-> DfuStatus_from_byte(data[1]),
          poll_timeout |-> data[2] + 256 * data[3] + 65536 * data[4] + 16777216 * data[5],
          state |-> DfuState_from_byte(data[5]),
          i_string |-> data[6]]

\* DfuStatusResponse::from_bytes; "short" stands for Err("Status response too short")
DfuStatusResponse_from_bytes(data) ==
    IF Len(data) < 6
    THEN [parsed |-> FALSE, status |-> "-", poll_timeout |-> 0, state |-> "-",
          i_string |-> 0]
    ELSE [parsed |-> TRUE,
          status |-> DfuStatus_from_byte(data[1]),
          poll_timeout |-> data[2] + 256 * data[3] + 65536 * data[4],
          state |-> DfuState_from_byte(data[5]),
          i_string |-> data[6]]

\* (attributes & mask) != 0 for a mask of one bit
BitSet(attributes, mask) == (attributes \div mask) % 2 = 1

\* u16::from_le_bytes([lo, hi])
u16_from_le_bytes(lo, hi) == lo + 256 * hi

\* the value from_bytes returns for a buffer that is too short
DescTooShort ==
    [parsed |-> FALSE, will_detach |-> FALSE, manifestation_tolerant |-> FALSE,
     can_upload |-> FALSE, can_download |-> FALSE, detach_timeout |-> 0,
     transfer_size |-> 0, dfu_version |-> 0]

\* faulty variant of DfuFunctionalDescriptor_from_bytes: the u16 fields are
\* read with the high byte first
DfuFunctionalDescriptor_from_bytes_BigEndian(data) ==
    IF Len(data) < 9 THEN DescTooShort
    ELSE [parsed |-> TRUE,
          will_detach |-> BitSet(data[3], 8),
          manifestation_tolerant |-> BitSet(data[3], 4),
          can_upload |-> BitSet(data[3], 2),
          can_download |-> BitSet(data[3], 1),
          detach_timeout |-> u16_from_le_bytes(data[5], data[4]),
          transfer_size |-> u16_from_le_bytes(data[7], data[6]),
          dfu_version |-> u16_from_le_bytes(data[9], data[8])]

\* faulty variant of DfuFunctionalDescriptor_from_bytes: the bits are taken
\* as the comments on the fields number them
DfuFunctionalDescriptor_from_bytes_AsDocumented(data) ==
    IF Len(data) < 9 THEN DescTooShort
    ELSE [parsed |-> TRUE,
          will_detach |-> BitSet(data[3], 1),
          manifestation_tolerant |-> BitSet(data[3], 2),
          can_upload |-> BitSet(data[3], 4),
          can_download |-> BitSet(data[3], 8),
          detach_timeout |-> u16_from_le_bytes(data[4], data[5]),
          transfer_size |-> u16_from_le_bytes(data[6], data[7]),
          dfu_version |-> u16_from_le_bytes(data[8], data[9])]

\* DfuFunctionalDescriptor::from_bytes; data[i] of the code is data[i + 1]
DfuFunctionalDescriptor_from_bytes(data) ==
    IF Len(data) < 9 THEN DescTooShort
    ELSE [parsed |-> TRUE,
          will_detach |-> BitSet(data[3], 8),
          manifestation_tolerant |-> BitSet(data[3], 4),
          can_upload |-> BitSet(data[3], 2),
          can_download |-> BitSet(data[3], 1),
          detach_timeout |-> u16_from_le_bytes(data[4], data[5]),
          transfer_size |-> u16_from_le_bytes(data[6], data[7]),
          dfu_version |-> u16_from_le_bytes(data[8], data[9])]

----------------------------------------------------------------------------
(* The device: what a transfer can bring back.                             *)

\* bState bytes the device answers GETSTATE with
StateBytes == {0, 2, 4, 5, 7, 8, 10}

\* the 6-byte buffers get_status() can hold after a successful control_read:
\* status OK with each of the states above and a poll timeout of 16 ms, two
\* error statuses, and the all-zero buffer.  The buffer starts zeroed and the
\* returned length is ignored, so a short answer parses like an answer whose
\* remaining bytes are zero
StatusBuffers ==
    {<<0, 16, 0, 0, st, 0>> : st \in StateBytes}
        \cup {<<3, 16, 0, 0, 10, 0>>, <<15, 0, 0, 0, 5, 0>>, <<0, 0, 0, 0, 0, 0>>}

\* the firmware images passed to download(): the prefixes of one image whose
\* bytes are all different
Image == [i \in 1..MaxFw |-> 17 * i]
Firmwares == {SubSeq(Image, 1, n) : n \in 0..MaxFw}

\* the blocks a device returns to an UPLOAD into a buffer of n bytes
Blocks(n) == {[i \in 1..k |-> b + i] : k \in 0..n, b \in {32, 64}}

----------------------------------------------------------------------------
(* History events.                                                         *)

NoResp == [parsed |-> FALSE, status |-> "-", poll_timeout |-> 0, state |-> "-",
           i_string |-> 0]

\* a control transfer: request code, wValue, the data stage (the bytes sent,
\* or for UPLOAD the bytes received) and whether the transfer succeeded
Xfer(req, value, data, ok) ==
    [kind |-> "xfer", req |-> req, value |-> value, data |-> data, ok |-> ok]
\* std::thread::sleep(Duration::from_millis(ms))
Sleep(ms) ==
    [kind |-> "sleep", req |-> -1, value |-> ms, data |-> <<>>, ok |-> TRUE]
\* faulty variant of Progress: the arguments change places
Progress_Swapped(sofar, total) ==
    [kind |-> "progress", req |-> -1, value |-> total, data |-> <<sofar>>, ok |-> TRUE]

\* progress callback cb(sofar, total): total travels in data
Progress(sofar, total) ==
    [kind |-> "progress", req |-> -1, value |-> sofar, data |-> <<total>>, ok |-> TRUE]

NoResult == [tag |-> "none", err |-> "-", msg |-> "-", name |-> "-", value |-> <<>>]
Ok(v) == [tag |-> "ok", err |-> "-", msg |-> "-", name |-> "-", value |-> v]
\* UsbError::UsbLib(e) from a failed transfer
ErrUsbLib == [tag |-> "err", err |-> "UsbLib", msg |-> "-", name |-> "-", value |-> <<>>]
\* UsbError::Parse(..)
ErrParse == [tag |-> "err", err |-> "Parse", msg |-> "-", name |-> "-", value |-> <<>>]
\* UsbError::Unknown(format!("{msg}{name}"))
ErrUnknown(msg, name) ==
    [tag |-> "err", err |-> "Unknown", msg |-> msg, name |-> name, value |-> <<>>]

----------------------------------------------------------------------------
(* protocols/dfu.rs: DfuClient.                                            *)

\* what the handle can do with a GETSTATUS control_read
GetStatusOutcomes ==
    {[ok |-> FALSE, buf |-> <<>>]} \cup {[ok |-> TRUE, buf |-> b] : b \in StatusBuffers}

\* what the handle can do with a GETSTATE control_read into a 1-byte buffer
GetStateOutcomes ==
    {[ok |-> FALSE, byte |-> 0]} \cup {[ok |-> TRUE, byte |-> b] : b \in StateBytes}

\* faulty variant of get_status: a status other than OK is returned as an error
get_status_Strict(o) ==
    IF ~o.ok
    THEN [ret |-> ErrUsbLib, state |-> state,
          ev |-> Xfer(GETSTATUS, 0, <<>>, FALSE), resp |-> NoResp]
    ELSE LET status == DfuStatusResponse_from_bytes(o.buf)
         IN [ret |-> IF DfuStatus_is_ok(status.status) THEN Ok(status)
                     ELSE ErrUnknown("DFU error: ", DfuStatus_name(status.status)),
             state |-> status.state,
             ev |-> Xfer(GETSTATUS, 0, <<>>, TRUE), resp |-> status]

\* DfuClient::get_status on outcome o: the value returned, the cached state
\* afterwards, the transfer as it appears in the history, the device's answer
get_status(o) ==
    IF ~o.ok
    THEN [ret |-> ErrUsbLib, state |-> state,
          ev |-> Xfer(GETSTATUS, 0, <<>>, FALSE), resp |-> NoResp]
    ELSE LET status == DfuStatusResponse_from_bytes(o.buf)
         IN IF ~status.parsed
            THEN [ret |-> ErrParse, state |-> state,
                  ev |-> Xfer(GETSTATUS, 0, <<>>, TRUE), resp |-> NoResp]
            ELSE [ret |-> Ok(status), state |-> status.state,
                  ev |-> Xfer(GETSTATUS, 0, <<>>, TRUE), resp |-> status]

\* DfuClient::get_state on outcome o
get_state(o) ==
    IF ~o.ok
    THEN [ret |-> ErrUsbLib, state |-> state,
          ev |-> Xfer(GETSTATE, 0, <<>>, FALSE), resp |-> NoResp]
    ELSE [ret |-> Ok(DfuState_from_byte(o.byte)), state |-> DfuState_from_byte(o.byte),
          ev |-> Xfer(GETSTATE, 0, <<>>, TRUE),
          resp |-> [NoResp EXCEPT !.state = DfuState_from_byte(o.byte)]]

\* faulty variant of clear_status: the cached state is reset, as abort() does
clear_status_Reset(ok) ==
    [ret |-> IF ok THEN Ok(<<>>) ELSE ErrUsbLib,
     state |-> IF ok THEN "DfuIdle" ELSE state,
     ev |-> Xfer(CLRSTATUS, 0, <<>>, ok), resp |-> NoResp]

\* DfuClient::clear_status when the CLRSTATUS control_write ends ok / not ok
clear_status(ok) ==
    [ret |-> IF ok THEN Ok(<<>>) ELSE ErrUsbLib, state |-> state,
     ev |-> Xfer(CLRSTATUS, 0, <<>>, ok), resp |-> NoResp]

\* faulty variant of abort: the cached state is left alone
abort_Keep(ok) ==
    [ret |-> IF ok THEN Ok(<<>>) ELSE ErrUsbLib, state |-> state,
     ev |-> Xfer(ABORT, 0, <<>>, ok), resp |-> NoResp]

\* DfuClient::abort when the ABORT control_write ends ok / not ok
abort(ok) ==
    [ret |-> IF ok THEN Ok(<<>>) ELSE ErrUsbLib,
     state |-> IF ok THEN "DfuIdle" ELSE state,
     ev |-> Xfer(ABORT, 0, <<>>, ok), resp |-> NoResp]

\* DfuClient::detach(timeout_ms)
detach(timeout_ms, ok) ==
    [ret |-> IF ok THEN Ok(<<>>) ELSE ErrUsbLib, state |-> state,
     ev |-> Xfer(DETACH, timeout_ms, <<>>, ok), resp |-> NoResp]

\* download_block(block_num, data) when the DNLOAD control_write ends ok / not ok
download_block(num, data, ok) ==
    [ret |-> IF ok THEN Ok(<<>>) ELSE ErrUsbLib, ev |-> Xfer(DNLOAD, num, data, ok)]

\* upload_block(block_num, buf) on outcome o: Ok(bytes) with buf[..bytes] = o.data
upload_block(num, o) ==
    [ret |-> IF o.ok THEN Ok(Len(o.data)) ELSE ErrUsbLib,
     ev |-> Xfer(UPLOAD, num, o.data, o.ok)]

\* faulty variant of wait_for_ready_match: the state is looked at before the
\* status
wait_for_ready_match_StateFirst(status) ==
    IF status.state \in {"DfuDnloadSync", "DfuDnBusy", "DfuManifestSync"}
    THEN [act |-> "sleep", ms |-> status.poll_timeout, ret |-> NoResult]
    ELSE IF status.state \in {"DfuDnloadIdle", "DfuIdle", "DfuManifest"}
    THEN [act |-> "ready", ms |-> 0, ret |-> Ok(<<>>)]
    ELSE IF ~DfuStatus_is_ok(status.status)
    THEN [act |-> "err", ms |-> 0,
          ret |-> ErrUnknown("DFU error: ", DfuStatus_name(status.status))]
    ELSE IF status.state = "DfuError"
    THEN [act |-> "err", ms |-> 0, ret |-> ErrUnknown("DFU error state", "")]
    ELSE [act |-> "err", ms |-> 0,
          ret |-> ErrUnknown("Unexpected state: ", DfuState_name(status.state))]

\* faulty variant of wait_for_ready_match: an unexpected state is polled again
wait_for_ready_match_Lenient(status) ==
    IF ~DfuStatus_is_ok(status.status)
    THEN [act |-> "err", ms |-> 0,
          ret |-> ErrUnknown("DFU error: ", DfuStatus_name(status.status))]
    ELSE IF status.state \in {"DfuDnloadIdle", "DfuIdle", "DfuManifest"}
    THEN [act |-> "ready", ms |-> 0, ret |-> Ok(<<>>)]
    ELSE IF status.state = "DfuError"
    THEN [act |-> "err", ms |-> 0, ret |-> ErrUnknown("DFU error state", "")]
    ELSE [act |-> "sleep", ms |-> status.poll_timeout, ret |-> NoResult]

\* the match of wait_for_ready on one GETSTATUS answer
wait_for_ready_match(status) ==
    IF ~DfuStatus_is_ok(status.status)
    THEN [act |-> "err", ms |-> 0,
          ret |-> ErrUnknown("DFU error: ", DfuStatus_name(status.status))]
    ELSE IF status.state \in {"DfuDnloadSync", "DfuDnBusy", "DfuManifestSync"}
    THEN [act |-> "sleep", ms |-> status.poll_timeout, ret |-> NoResult]
    ELSE IF status.state \in {"DfuDnloadIdle", "DfuIdle", "DfuManifest"}
    THEN [act |-> "ready", ms |-> 0, ret |-> Ok(<<>>)]
    ELSE IF status.state = "DfuError"
    THEN [act |-> "err", ms |-> 0, ret |-> ErrUnknown("DFU error state", "")]
    ELSE [act |-> "err", ms |-> 0,
          ret |-> ErrUnknown("Unexpected state: ", DfuState_name(status.state))]

\* faulty variant of manifest_match: every state that is not final is polled
\* again after the reported poll timeout
manifest_match_PollTimeout(status) ==
    IF ~DfuStatus_is_ok(status.status)
    THEN [act |-> "err", ms |-> 0,
          ret |-> ErrUnknown("Manifestation error: ", DfuStatus_name(status.status))]
    ELSE IF status.state \in {"DfuManifestWaitReset", "DfuIdle"}
    THEN [act |-> "ready", ms |-> 0, ret |-> Ok(<<>>)]
    ELSE [act |-> "sleep", ms |-> status.poll_timeout, ret |-> NoResult]

\* the match of download()'s manifestation loop on one GETSTATUS answer
manifest_match(status) ==
    IF ~DfuStatus_is_ok(status.status)
    THEN [act |-> "err", ms |-> 0,
          ret |-> ErrUnknown("Manifestation error: ", DfuStatus_name(status.status))]
    ELSE IF status.state \in {"DfuManifest", "DfuManifestSync"}
    THEN [act |-> "sleep", ms |-> status.poll_timeout, ret |-> NoResult]
    ELSE IF status.state \in {"DfuManifestWaitReset", "DfuIdle"}
    THEN [act |-> "ready", ms |-> 0, ret |-> Ok(<<>>)]
    ELSE [act |-> "sleep", ms |-> 100, ret |-> NoResult]

\* u16::MAX
U16Max == 65535

\* what `block_num += 1` does on a u16: below u16::MAX it adds; at u16::MAX
\* it wraps to 0 in a build without overflow checks and panics in a build
\* with them
AddOne(b) == IF b < U16Max THEN {"add"} ELSE {"wrap", "panic"}

\* the thread panicked: "attempt to add with overflow"
Panicked ==
    [tag |-> "panic", err |-> "-", msg |-> "attempt to add with overflow", name |-> "-",
     value |-> <<>>]

\* block_num += 1 on a u16
NextBlockNum(b) == (b + 1) % 65536

\* faulty variant of ChunkSize: the rest of the image goes out as one block
ChunkSize_Rest == Len(firmware) - offset

\* download(): chunk_size and chunk of the block at the current offset
ChunkSize == Min(Len(firmware) - offset, transfer_size)
Chunk == SubSeq(firmware, offset + 1, offset + ChunkSize)

\* the head of download()'s while loop
DlLoopHead(off) == IF off < Len(firmware) THEN "dl_block" ELSE "dl_final"

----------------------------------------------------------------------------
(* What the history variables record of the device.                        *)

\* an answer of a ready device: status OK and a state that ends wait_for_ready
ReadyAnswer(resp) ==
    /\ resp.parsed
    /\ resp.status = "Ok"
    /\ resp.state \in {"DfuDnloadIdle", "DfuIdle", "DfuManifest"}

\* the n-th answer (from 0) of the busy-once mock after a DNLOAD
MockAnswer(resp, n) ==
    /\ resp.parsed
    /\ resp.status = "Ok"
    /\ resp.state = (IF n = 0 THEN "DfuDnBusy" ELSE "DfuDnloadIdle")

\* a transfer failed: the device is neither a ready device nor the mock
ObsFail == all_ready' = FALSE /\ mock' = "no"

\* a transfer other than GETSTATUS ended ok / not ok
ObsXfer(ok) == IF ok THEN UNCHANGED <<all_ready, mock>> ELSE ObsFail

\* a GETSTATUS outside the wait loops was answered resp
ObsStatus(resp) ==
    /\ all_ready' = (all_ready /\ ReadyAnswer(resp))
    /\ mock' = (IF resp.parsed THEN mock ELSE "no")

\* a GETSTATUS of wait_for_ready was answered resp
ObsWait(resp) ==
    /\ all_ready' = (all_ready /\ ReadyAnswer(resp))
    /\ mock' = (IF MockAnswer(resp, polls) THEN mock ELSE "no")

\* a GETSTATUS of the manifestation loop was answered resp: mock stays
\* "strict" while the device goes on with the script after the empty DNLOAD,
\* and falls to "data" when it only keeps answering with status OK
ObsManifest(resp) ==
    /\ all_ready' = (all_ready /\ ReadyAnswer(resp))
    /\ mock' = (IF mock = "strict" /\ MockAnswer(resp, polls) THEN "strict"
                ELSE IF mock # "no" /\ resp.parsed /\ resp.status = "Ok" THEN "data"
                ELSE "no")

----------------------------------------------------------------------------
(* The operations of DfuClient, as the application calls them.             *)

\* an operation begins: its arguments, fresh locals, fresh history
Begin(name, fw, cb, ms) ==
    /\ op' = name
    /\ firmware' = fw
    /\ has_cb' = cb
    /\ max_size' = ms
    /\ offset' = 0
    /\ block_num' = 0
    /\ up_firmware' = <<>>
    /\ polls' = 0
    /\ all_ready' = TRUE
    /\ mock' = "strict"

\* an operation returns r
Return(r) ==
    /\ pc' = "idle"
    /\ result' = r

Locals == <<firmware, has_cb, max_size, offset, block_num, up_firmware, polls>>

\* the five single-transfer operations: r is what the method does
CallSimple(name, r) ==
    /\ pc = "idle"
    /\ Begin(name, <<>>, FALSE, 0)
    /\ state' = r.state
    /\ wire' = <<r.ev>>
    /\ last' = r.resp
    /\ Return(r.ret)
    /\ UNCHANGED <<transfer_size, bulk_vars, ext_vars>>

GetStatus == \E o \in GetStatusOutcomes : CallSimple("get_status", get_status(o))
GetState == \E o \in GetStateOutcomes : CallSimple("get_state", get_state(o))
ClearStatus == \E ok \in BOOLEAN : CallSimple("clear_status", clear_status(ok))
Abort == \E ok \in BOOLEAN : CallSimple("abort", abort(ok))
Detach == \E ok \in BOOLEAN : CallSimple("detach", detach(1000, ok))

\* faulty variant of NotIdle: only the error state is left with ABORT
NotIdle_OnError(s) == s = "DfuError"

\* if self.state != DfuState::DfuIdle, at the head of download() and upload()
NotIdle(s) == s # "DfuIdle"

\* download(firmware, progress) is called with a firmware of fws: the code up
\* to the first transfer
DownloadCallOf(fws) ==
    /\ pc = "idle"
    /\ \E fw \in fws, cb \in BOOLEAN :
          /\ Begin("download", fw, cb, 0)
          /\ pc' = IF NotIdle(state) THEN "dl_abort"
                   ELSE IF 0 < Len(fw) THEN "dl_block" ELSE "dl_final"
    /\ result' = NoResult
    /\ wire' = <<>>
    /\ last' = NoResp
    /\ UNCHANGED <<transfer_size, state, bulk_vars, ext_vars>>

DownloadCall == DownloadCallOf(Firmwares)

\* upload(max_size, progress) is called: the code up to the first transfer
UploadCall ==
    /\ pc = "idle"
    /\ \E ms \in 0..MaxUp, cb \in BOOLEAN : Begin("upload", <<>>, cb, ms)
    /\ pc' = IF NotIdle(state) THEN "ul_abort" ELSE "ul_block"
    /\ result' = NoResult
    /\ wire' = <<>>
    /\ last' = NoResp
    /\ UNCHANGED <<transfer_size, state, bulk_vars, ext_vars>>

\* self.abort()? at the head of download() (at = "dl_abort") or upload()
EnsureIdleAbort(at, next) ==
    /\ pc = at
    /\ \E ok \in BOOLEAN :
          LET r == abort(ok) IN
          /\ wire' = Append(wire, r.ev)
          /\ state' = r.state
          /\ ObsXfer(ok)
          /\ IF r.ret.tag = "err"
             THEN Return(r.ret)
             ELSE pc' = next /\ UNCHANGED result
    /\ UNCHANGED <<transfer_size, op, Locals, last, bulk_vars, ext_vars>>

\* self.get_status()? after it: the answer is discarded, then the loop begins
EnsureIdleStatusOn(at, next, outs) ==
    /\ pc = at
    /\ \E o \in outs :
          LET r == get_status(o) IN
          /\ wire' = Append(wire, r.ev)
          /\ state' = r.state
          /\ last' = r.resp
          /\ ObsStatus(r.resp)
          /\ IF r.ret.tag = "err"
             THEN Return(r.ret)
             ELSE pc' = next /\ UNCHANGED result
    /\ UNCHANGED <<transfer_size, op, Locals, bulk_vars, ext_vars>>

\* against the devices of GetStatusOutcomes
EnsureIdleStatus(at, next) == EnsureIdleStatusOn(at, next, GetStatusOutcomes)

DlAbort == EnsureIdleAbort("dl_abort", "dl_status")
DlStatus == EnsureIdleStatus("dl_status", DlLoopHead(0))
UlAbort == EnsureIdleAbort("ul_abort", "ul_status0")
UlStatus0 == EnsureIdleStatus("ul_status0", "ul_block")

\* self.download_block(block_num, chunk)? in the while loop, for a block
\* number below cap
DlBlockBelow(cap) ==
    /\ pc = "dl_block"
    /\ block_num < cap
    /\ \E ok \in BOOLEAN :
          LET r == download_block(block_num, Chunk, ok) IN
          /\ wire' = Append(wire, r.ev)
          /\ ObsXfer(ok)
          /\ IF r.ret.tag = "err"
             THEN Return(r.ret)
             ELSE pc' = "dl_wait" /\ UNCHANGED result
    /\ UNCHANGED <<transfer_size, state, op, Locals, last, bulk_vars, ext_vars>>

DlBlock == DlBlockBelow(MaxBlocks)

\* one pass of wait_for_ready()'s loop, and on Ok(()) the rest of the while
\* body: offset and block_num advance, the callback runs, the loop head;
\* outs is what the handle can do with the GETSTATUS
DlWaitOn(outs) ==
    /\ pc = "dl_wait"
    /\ polls < MaxPolls
    /\ \E o \in outs :
          LET r == get_status(o)
              m == wait_for_ready_match(r.ret.value)
              off == offset + ChunkSize
          IN
          /\ state' = r.state
          /\ last' = r.resp
          /\ ObsWait(r.resp)
          /\ IF r.ret.tag = "err"
             THEN /\ wire' = Append(wire, r.ev)
                  /\ Return(r.ret)
                  /\ UNCHANGED <<offset, block_num, polls>>
             ELSE IF m.act = "err"
             THEN /\ wire' = Append(wire, r.ev)
                  /\ Return(m.ret)
                  /\ UNCHANGED <<offset, block_num, polls>>
             ELSE IF m.act = "sleep"
             THEN /\ wire' = wire \o <<r.ev, Sleep(m.ms)>>
                  /\ polls' = polls + 1
                  /\ UNCHANGED <<pc, result, offset, block_num>>
             ELSE /\ offset' = off
                  /\ \E add \in AddOne(block_num) :
                        IF add = "panic"
                        THEN /\ wire' = Append(wire, r.ev)
                             /\ Return(Panicked)
                             /\ UNCHANGED <<block_num, polls>>
                        ELSE /\ block_num' = NextBlockNum(block_num)
                             /\ wire' = wire \o <<r.ev>> \o
                                   (IF has_cb THEN <<Progress(off, Len(firmware))>>
                                    ELSE <<>>)
                             /\ pc' = DlLoopHead(off)
                             /\ polls' = 0
                             /\ UNCHANGED result
    /\ UNCHANGED <<transfer_size, op, firmware, has_cb, max_size, up_firmware, bulk_vars, ext_vars>>

DlWait == DlWaitOn(GetStatusOutcomes)

\* self.download_block(block_num, &[])? after the loop
DlFinal ==
    /\ pc = "dl_final"
    /\ \E ok \in BOOLEAN :
          LET r == download_block(block_num, <<>>, ok) IN
          /\ wire' = Append(wire, r.ev)
          /\ ObsXfer(ok)
          /\ IF r.ret.tag = "err"
             THEN Return(r.ret)
             ELSE pc' = "dl_manifest" /\ UNCHANGED result
    /\ UNCHANGED <<transfer_size, state, op, Locals, last, bulk_vars, ext_vars>>

\* one pass of download()'s manifestation loop; outs is what the handle can
\* do with the GETSTATUS
DlManifestOn(outs) ==
    /\ pc = "dl_manifest"
    /\ polls < MaxPolls
    /\ \E o \in outs :
          LET r == get_status(o)
              m == manifest_match(r.ret.value)
          IN
          /\ state' = r.state
          /\ last' = r.resp
          /\ ObsManifest(r.resp)
          /\ IF r.ret.tag = "err"
             THEN /\ wire' = Append(wire, r.ev)
                  /\ Return(r.ret)
                  /\ UNCHANGED polls
             ELSE IF m.act = "err"
             THEN /\ wire' = Append(wire, r.ev)
                  /\ Return(m.ret)
                  /\ UNCHANGED polls
             ELSE IF m.act = "sleep"
             THEN /\ wire' = wire \o <<r.ev, Sleep(m.ms)>>
                  /\ polls' = polls + 1
                  /\ UNCHANGED <<pc, result>>
             ELSE /\ wire' = Append(wire, r.ev)
                  /\ Return(Ok(<<>>))
                  /\ UNCHANGED polls
    /\ UNCHANGED <<transfer_size, op, firmware, has_cb, max_size, offset, block_num,
                   up_firmware, bulk_vars, ext_vars>>

DlManifest == DlManifestOn(GetStatusOutcomes)

\* what the handle can do with an UPLOAD control_read into buf (transfer_size bytes)
UploadOutcomes ==
    {[ok |-> FALSE, data |-> <<>>]} \cup
    {[ok |-> TRUE, data |-> d] : d \in Blocks(transfer_size)}

\* faulty variant of UploadStops: a short block no longer ends the transfer
UploadStops_NoShort(len, bytes) == len >= max_size

\* faulty variant of UploadStops: a block of the full size ends the transfer too
UploadStops_Le(len, bytes) == len >= max_size \/ bytes <= transfer_size

\* upload(): the two breaks after a non-empty block of `bytes` bytes that
\* brought the accumulated length to len
UploadStops(len, bytes) == len >= max_size \/ bytes < transfer_size

\* one pass of upload()'s loop up to its get_status() call, for a block
\* number below cap
UlBlockBelow(cap) ==
    /\ pc = "ul_block"
    /\ block_num < cap
    /\ \E o \in UploadOutcomes :
          LET r == upload_block(block_num, o)
              bytes == r.ret.value
              fw == up_firmware \o o.data
          IN
          /\ ObsXfer(o.ok)
          /\ IF r.ret.tag = "err"
             THEN /\ wire' = Append(wire, r.ev)
                  /\ Return(r.ret)
                  /\ UNCHANGED <<up_firmware, block_num>>
             ELSE IF bytes = 0
             THEN /\ wire' = Append(wire, r.ev)
                  /\ Return(Ok(up_firmware))
                  /\ UNCHANGED <<up_firmware, block_num>>
             ELSE /\ up_firmware' = fw
                  /\ \E add \in AddOne(block_num) :
                        IF add = "panic"
                        THEN /\ wire' = Append(wire, r.ev)
                             /\ Return(Panicked)
                             /\ UNCHANGED block_num
                        ELSE /\ block_num' = NextBlockNum(block_num)
                             /\ wire' = wire \o <<r.ev>> \o
                                   (IF has_cb THEN <<Progress(Len(fw), max_size)>>
                                    ELSE <<>>)
                             /\ IF UploadStops(Len(fw), bytes)
                                THEN Return(Ok(fw))
                                ELSE pc' = "ul_status" /\ UNCHANGED result
    /\ UNCHANGED <<transfer_size, state, op, firmware, has_cb, max_size, offset, polls,
                   last, bulk_vars, ext_vars>>

UlBlock == UlBlockBelow(MaxBlocks)

\* self.get_status()? at the end of upload()'s loop body
UlStatus == EnsureIdleStatus("ul_status", "ul_block")

----------------------------------------------------------------------------
(* The DFU client specification.                                           *)

\* what read() and write_single() return: Ok(bytes) or Err(e)
BNoResult == [tag |-> "none", err |-> "-", name |-> "-", value |-> 0]
BOk(n) == [tag |-> "ok", err |-> "-", name |-> "-", value |-> n]
BErr(e) == [tag |-> "err", err |-> e.variant, name |-> e.code, value |-> 0]

\* no bulk helper is in use
BulkIdle ==
    /\ max_retries = 0
    /\ b_pc = "idle"
    /\ b_op = "none"
    /\ b_endpoint = 0
    /\ b_attempt = 0
    /\ b_calls = <<>>
    /\ b_sleeps = <<>>
    /\ b_result = BNoResult

\* no BulkTransfer::write / read_exact is in use
XferIdle ==
    /\ x_pc = "idle"
    /\ x_op = "none"
    /\ x_has_chunk = FALSE
    /\ x_chunk = 0
    /\ x_len = 0
    /\ x_off = 0
    /\ x_req = 0
    /\ x_total = 0
    /\ x_ios = <<>>
    /\ x_result = BNoResult

\* no BulkWriter is in use
WriterIdle ==
    /\ w_size = 0
    /\ w_buffer = <<>>
    /\ w_alive = FALSE
    /\ w_pc = "idle"
    /\ w_op = "none"
    /\ w_stage = "-"
    /\ w_rest = <<>>
    /\ w_in = <<>>
    /\ w_out = <<>>
    /\ w_result = BNoResult

\* what a BulkReader operation returns: Ok(n) for read, Ok(line) for
\* read_line, or Err(e)
RNoResult == [tag |-> "none", n |-> 0, data |-> <<>>, err |-> "-"]
ROk(data) == [tag |-> "ok", n |-> Len(data), data |-> data, err |-> "-"]
RErr(variant) == [tag |-> "err", n |-> 0, data |-> <<>>, err |-> variant]

\* BulkReader::new with a buffer of size bytes
ReaderNew(size) ==
    /\ r_size = size
    /\ r_buffer = <<>>
    /\ r_pos = 0
    /\ r_pc = "idle"
    /\ r_op = "none"
    /\ r_want = 0
    /\ r_got = <<>>
    /\ r_line = <<>>
    /\ r_zero = FALSE
    /\ r_clean = TRUE
    /\ r_start = 0
    /\ r_dev = <<>>
    /\ r_out = <<>>
    /\ r_result = RNoResult

\* no BulkReader is in use
ReaderIdle == ReaderNew(0)

\* what poll() returns: Ok(()) or Err(e)
PNoResult == [tag |-> "none", err |-> "-"]
POk == [tag |-> "ok", err |-> "-"]
PErr(e) == [tag |-> "err", err |-> e]

\* vec![0u8; n]
Zeros(n) == [i \in 1..n |-> 0]

\* InterruptPoller::new(endpoint, buffer_size)
PollerNew(size) ==
    /\ p_size = size
    /\ p_running = FALSE
    /\ p_pc = "idle"
    /\ p_buffer = <<>>
    /\ p_bytes = 0
    /\ p_reads = 0
    /\ p_log = <<>>
    /\ p_stop_at = "-"
    /\ p_after = 0
    /\ p_early = FALSE
    /\ p_result = PNoResult

\* no InterruptPoller is in use
PollerIdle == PollerNew(0)

\* Option<u8> and Option<String> of UsbDescriptorSummary; a string is the
\* sequence of its characters
NoByte == [some |-> FALSE, v |-> 0]
SomeByte(b) == [some |-> TRUE, v |-> b]
NoString == [some |-> FALSE, v |-> <<>>]
SomeString(str) == [some |-> TRUE, v |-> str]

\* the fields of UsbDeviceRecord the classifier reads
DeviceRecord(vid, pid, class, subclass, protocol, manufacturer, product, tags) ==
    [vid |-> vid, pid |-> pid, device_class |-> class, device_subclass |-> subclass,
     device_protocol |-> protocol, manufacturer |-> manufacturer, product |-> product,
     tags |-> tags]

\* a freshly enumerated record rec, not yet classified
ClassNew(rec) ==
    /\ c_rec = rec
    /\ c_pc = "new"
    /\ c_result = <<>>
    /\ c_prev_result = <<>>
    /\ c_added = <<>>

\* no device record is in hand
ClassIdle == ClassNew(DeviceRecord(0, 0, NoByte, NoByte, NoByte, NoString, NoString, <<>>))

\* what a scan returns: Ok(records) or Err(e)
ENoResult == [tag |-> "none", records |-> <<>>, err |-> "-"]
EOk(records) == [tag |-> "ok", records |-> records, err |-> "-"]
EErr(e) == [tag |-> "err", records |-> <<>>, err |-> e]

\* no scan has been started
ScanIdle ==
    /\ e_kind = "none"
    /\ e_pc = "idle"
    /\ e_transport = "-"
    /\ e_n = 0
    /\ e_seen = <<>>
    /\ e_records = <<>>
    /\ e_result = ENoResult

\* what a parser returns: the fields of the parsed value, all of them zero or
\* "-" when the parser does not produce them, or the error
QNoResult ==
    [parsed |-> FALSE, status |-> "-", poll_timeout |-> 0, state |-> "-", i_string |-> 0,
     will_detach |-> FALSE, manifestation_tolerant |-> FALSE, can_upload |-> FALSE,
     can_download |-> FALSE, detach_timeout |-> 0, transfer_size |-> 0, dfu_version |-> 0,
     is_dfu_mode |-> FALSE]

\* the parser op is about to be applied to data
ParseNew(name, data) ==
    /\ q_op = name
    /\ q_data = data
    /\ q_done = FALSE
    /\ q_out = QNoResult

\* no parser is in use
ParseIdle == ParseNew("none", <<>>)

\* neither a scan nor a parser is in use
TailIdle == ScanIdle /\ ParseIdle

\* DfuClient::new(handle, interface, transfer_size)
DfuNew(ts) ==
    /\ transfer_size = ts
    /\ state = "DfuIdle"
    /\ pc = "idle"
    /\ op = "new"
    /\ result = NoResult
    /\ firmware = <<>>
    /\ has_cb = FALSE
    /\ max_size = 0
    /\ offset = 0
    /\ block_num = 0
    /\ up_firmware = <<>>
    /\ polls = 0
    /\ wire = <<>>
    /\ last = NoResp
    /\ all_ready = TRUE
    /\ mock = "strict"

\* the components other than the DFU client and the retrying bulk calls are
\* not in use
ExtIdle == XferIdle /\ WriterIdle /\ ReaderIdle /\ PollerIdle /\ ClassIdle /\ TailIdle

InitDfu == (\E ts \in 0..MaxT : DfuNew(ts)) /\ BulkIdle /\ ExtIdle

NextDfu ==
    \/ GetStatus
    \/ GetState
    \/ ClearStatus
    \/ Abort
    \/ Detach
    \/ DownloadCall
    \/ DlAbort
    \/ DlStatus
    \/ DlBlock
    \/ DlWait
    \/ DlFinal
    \/ DlManifest
    \/ UploadCall
    \/ UlAbort
    \/ UlStatus0
    \/ UlBlock
    \/ UlStatus

SpecDfu == InitDfu /\ [][NextDfu]_vars

\* The late part of a long transfer with transfer size 1: a download of a
\* firmware of u16::MAX + 2 bytes, or an upload of as many, when u16::MAX - 1
\* or u16::MAX blocks have been transferred and every poll so far was
\* answered with status OK.  Here wire holds the events from that point on
LongLen == U16Max + 2
LongImage == [i \in 1..LongLen |-> i % 256]
LateAnswer(s) ==
    [parsed |-> TRUE, status |-> "Ok", poll_timeout |-> 0, state |-> s, i_string |-> 0]

LateDownload(n, cb) ==
    /\ transfer_size = 1
    /\ state = "DfuDnloadIdle"
    /\ pc = "dl_block"
    /\ op = "download"
    /\ result = NoResult
    /\ firmware = LongImage
    /\ has_cb = cb
    /\ max_size = 0
    /\ offset = n
    /\ block_num = n
    /\ up_firmware = <<>>
    /\ polls = 0
    /\ wire = <<>>
    /\ last = LateAnswer("DfuDnloadIdle")
    /\ all_ready = TRUE
    /\ mock = "no"

LateUpload(n, cb) ==
    /\ transfer_size = 1
    /\ state = "DfuUploadIdle"
    /\ pc = "ul_block"
    /\ op = "upload"
    /\ result = NoResult
    /\ firmware = <<>>
    /\ has_cb = cb
    /\ max_size = LongLen
    /\ offset = 0
    /\ block_num = n
    /\ up_firmware = SubSeq(LongImage, 1, n)
    /\ polls = 0
    /\ wire = <<>>
    /\ last = LateAnswer("DfuUploadIdle")
    /\ all_ready = FALSE
    /\ mock = "no"

InitLong ==
    /\ \E n \in {U16Max - 1, U16Max}, cb \in BOOLEAN : LateDownload(n, cb) \/ LateUpload(n, cb)
    /\ BulkIdle
    /\ ExtIdle

DlBlockLong == DlBlockBelow(U16Max + 1)
UlBlockLong == UlBlockBelow(U16Max + 1)

NextLong ==
    \/ DlBlockLong
    \/ DlWait
    \/ DlFinal
    \/ DlManifest
    \/ UlBlockLong
    \/ UlStatus

SpecLong == InitLong /\ [][NextLong]_vars

\* download() of at most two blocks, against a device that may report any
\* state: the bytes of the eleven DfuState values and one byte that is none
\* of them, with status OK, and some of them with an error status.  The poll
\* timeout is 257 ms with dfuDNLOAD-SYNC and 16 ms with the other states
AnyStateBytes == 0..11
AnyStatusBuffers ==
    {<<0, IF st = 3 THEN 1 ELSE 16, IF st = 3 THEN 1 ELSE 0, 0, st, 0>> : st \in AnyStateBytes}
        \cup {<<s, 16, 0, 0, st, 0>> : s \in {3, 15}, st \in {2, 4, 6, 7, 8, 10}}
AnyStatusOutcomes ==
    {[ok |-> FALSE, buf |-> <<>>]} \cup {[ok |-> TRUE, buf |-> b] : b \in AnyStatusBuffers}

DlStatusAny == EnsureIdleStatusOn("dl_status", DlLoopHead(0), AnyStatusOutcomes)
DlWaitAny == DlWaitOn(AnyStatusOutcomes)
DlManifestAny == DlManifestOn(AnyStatusOutcomes)

DownloadCallShort == DownloadCallOf({fw \in Firmwares : Len(fw) <= 2})

InitDownload == (\E ts \in 1..MaxT : DfuNew(ts)) /\ BulkIdle /\ ExtIdle

NextDownload ==
    \/ DownloadCallShort
    \/ DlAbort
    \/ DlStatusAny
    \/ DlBlock
    \/ DlWaitAny
    \/ DlFinal
    \/ DlManifestAny

SpecDownload == InitDownload /\ [][NextDownload]_vars

----------------------------------------------------------------------------
(* communication/bulk.rs: BulkTransfer::read and write_single.             *)

\* the errors an underlying bulk call can fail with: UsbError::UsbLib(e) for
\* some rusb errors e, and UsbError::Io
BulkErrors ==
    {[variant |-> "UsbLib", code |-> c] :
        c \in {"Timeout", "Busy", "Interrupted", "NotFound", "Pipe"}}
        \cup {[variant |-> "Io", code |-> "-"]}

\* what an underlying bulk call on a buffer of n bytes can bring back:
\* Ok(bytes) with bytes <= n, or Err(e)
OutcomesUpTo(n) ==
    {[ok |-> TRUE, bytes |-> k, e |-> [variant |-> "-", code |-> "-"]] : k \in 0..n}
        \cup {[ok |-> FALSE, bytes |-> 0, e |-> e] : e \in BulkErrors}

\* what an underlying bulk call can bring back: Ok(bytes) or Err(e)
BulkOutcomes == OutcomesUpTo(MaxLen)

\* faulty variant of is_retryable: every transport error is retried
is_retryable_AnyUsbLib(error) == error.variant = "UsbLib"

\* is_retryable(error)
is_retryable(error) ==
    /\ error.variant = "UsbLib"
    /\ error.code \in {"Timeout", "Busy", "Interrupted"}

\* faulty variant of ShouldRetry: one retry too many
ShouldRetry_Le(attempt, e) == attempt <= max_retries /\ is_retryable(e)

\* the retry condition of read() and write_single()
ShouldRetry(attempt, e) == attempt < max_retries /\ is_retryable(e)

\* endpoint | 0x80 and endpoint & 0x7F on a u8
InEndpoint(ep) == IF ep >= 128 THEN ep ELSE ep + 128
OutEndpoint(ep) == IF ep >= 128 THEN ep - 128 ELSE ep


\* read(endpoint, buf) / write_single(endpoint, buf) is called
BulkCall(name) ==
    /\ b_pc = "idle"
    /\ b_op' = name
    /\ \E ep \in {1, 129} : b_endpoint' = ep
    /\ b_attempt' = 0
    /\ b_calls' = <<>>
    /\ b_sleeps' = <<>>
    /\ b_result' = BNoResult
    /\ b_pc' = "attempt"
    /\ UNCHANGED <<max_retries, dfu_vars, ext_vars>>

\* one pass of the for loop: the underlying call on endpoint ep and its match
BulkAttemptOn(name, fn, ep, outs) ==
    /\ b_pc = "attempt"
    /\ b_op = name
    /\ \E o \in outs :
          /\ b_calls' = Append(b_calls, [fn |-> fn, endpoint |-> ep, out |-> o])
          /\ IF o.ok
             THEN /\ b_result' = BOk(o.bytes)
                  /\ b_pc' = "idle"
                  /\ UNCHANGED <<b_attempt, b_sleeps>>
             ELSE IF ShouldRetry(b_attempt, o.e)
             THEN /\ b_sleeps' = Append(b_sleeps, 10 * (b_attempt + 1))
                  /\ b_attempt' = b_attempt + 1
                  /\ UNCHANGED <<b_pc, b_result>>
             ELSE /\ b_result' = BErr(o.e)
                  /\ b_pc' = "idle"
                  /\ UNCHANGED <<b_attempt, b_sleeps>>
    /\ UNCHANGED <<max_retries, b_op, b_endpoint, dfu_vars, ext_vars>>

\* the same with a buffer of MaxLen bytes
BulkAttempt(name, fn, ep) == BulkAttemptOn(name, fn, ep, BulkOutcomes)

ReadCall == BulkCall("read")
ReadAttempt == BulkAttempt("read", "bulk_read", InEndpoint(b_endpoint))
WriteSingleCall == BulkCall("write_single")
WriteSingleAttempt == BulkAttempt("write_single", "bulk_write", OutEndpoint(b_endpoint))

\* BulkTransfer::new(handle).with_retries(retries)
InitBulk ==
    /\ DfuNew(0)
    /\ max_retries \in 0..MaxRetriesBound
    /\ b_pc = "idle"
    /\ b_op = "none"
    /\ b_endpoint = 0
    /\ b_attempt = 0
    /\ b_calls = <<>>
    /\ b_sleeps = <<>>
    /\ b_result = BNoResult
    /\ ExtIdle

NextBulk ==
    \/ ReadCall
    \/ ReadAttempt
    \/ WriteSingleCall
    \/ WriteSingleAttempt

SpecBulk == InitBulk /\ [][NextBulk]_vars

----------------------------------------------------------------------------
(* communication/bulk.rs: BulkTransfer::write, write_chunked, read_exact.  *)
(* Each slice goes through write_single() or read(), modelled above; the   *)
(* actions here are the code around those calls.                           *)

\* Err(UsbError::Unknown("Short read"))
ShortRead == [variant |-> "Unknown", code |-> "Short read"]
\* buf.chunks(0) panics
XPanic == [tag |-> "panic", err |-> "-", name |-> "chunk size must be non-zero", value |-> 0]

\* write_single(endpoint, slice) / read(endpoint, slice) is entered for the
\* slice of len bytes at offset off
StartSingle(name, off, len) ==
    /\ b_op' = name
    /\ b_attempt' = 0
    /\ b_calls' = <<>>
    /\ b_sleeps' = <<>>
    /\ b_result' = BNoResult
    /\ b_pc' = "attempt"
    /\ x_off' = off
    /\ x_req' = len
    /\ x_pc' = "single"

\* the operation returns r
XferReturns(r) ==
    /\ x_result' = r
    /\ x_pc' = "idle"
    /\ UNCHANGED <<b_pc, b_op, b_attempt, b_calls, b_sleeps, b_result, x_off, x_req>>

\* the underlying calls of the slice in hand, as the history keeps them
SliceCalls ==
    [i \in 1..Len(b_calls) |->
        [fn |-> b_calls[i].fn, off |-> x_off, len |-> x_req,
         ok |-> b_calls[i].out.ok, bytes |-> b_calls[i].out.bytes]]

\* write(endpoint, buf): write_chunked when a chunk size is set, else
\* write_single on the whole buffer
WriteCall ==
    /\ x_pc = "idle"
    /\ b_pc = "idle"
    /\ x_op' = "write"
    /\ x_total' = 0
    /\ x_ios' = <<>>
    /\ \E ep \in {1, 129} : b_endpoint' = ep
    /\ \E len \in 0..MaxBuf :
          /\ x_len' = len
          /\ IF ~x_has_chunk
             THEN StartSingle("write_single", 0, len) /\ x_result' = BNoResult
             ELSE IF x_chunk = 0
             THEN XferReturns(XPanic)
             ELSE IF len = 0
             THEN XferReturns(BOk(0))
             ELSE StartSingle("write_single", 0, Min(x_chunk, len)) /\ x_result' = BNoResult
    /\ UNCHANGED <<max_retries, x_has_chunk, x_chunk, not_xfer>>

\* one underlying bulk_write of the slice in hand
WriteSlice ==
    /\ x_pc = "single"
    /\ BulkAttemptOn("write_single", "bulk_write", OutEndpoint(b_endpoint), OutcomesUpTo(x_req))

\* faulty variant of ChunkDone: a short write does not stop the loop
ChunkDone_Continue(written, len) == FALSE

\* write_chunked: `if written < chunk.len() { break; }`
ChunkDone(written, len) == written < len

\* write_single has returned: the rest of write() / write_chunked()
WriteNext ==
    /\ x_pc = "single"
    /\ x_op = "write"
    /\ b_pc = "idle"
    /\ x_ios' = x_ios \o SliceCalls
    /\ IF ~x_has_chunk \/ b_result.tag = "err"
       THEN XferReturns(b_result) /\ UNCHANGED x_total
       ELSE LET written == b_result.value
                next == x_off + x_req
            IN  /\ x_total' = x_total + written
                /\ IF ChunkDone(written, x_req) \/ next >= x_len
                   THEN XferReturns(BOk(x_total + written))
                   ELSE /\ StartSingle("write_single", next, Min(x_chunk, x_len - next))
                        /\ x_result' = BNoResult
    /\ UNCHANGED <<max_retries, b_endpoint, x_op, x_has_chunk, x_chunk, x_len, not_xfer>>

\* read_exact: `self.chunk_size.unwrap_or(buf.len())`
ReadChunk == IF x_has_chunk THEN x_chunk ELSE x_len

\* faulty variant of ToRead: the whole chunk is asked for at the buffer's end
ToRead_Chunk(total_read, len, chunk) == chunk

\* read_exact: `remaining.min(chunk_size)`
ToRead(total_read, len, chunk) == Min(len - total_read, chunk)

\* read_exact(endpoint, buf)
ReadExactCall ==
    /\ x_pc = "idle"
    /\ b_pc = "idle"
    /\ x_op' = "read_exact"
    /\ x_total' = 0
    /\ x_ios' = <<>>
    /\ \E ep \in {1, 129} : b_endpoint' = ep
    /\ \E len \in 0..MaxBuf :
          /\ x_len' = len
          /\ IF len = 0
             THEN XferReturns(BOk(0))
             ELSE /\ StartSingle("read", 0,
                                 ToRead(0, len, IF x_has_chunk THEN x_chunk ELSE len))
                  /\ x_result' = BNoResult
    /\ UNCHANGED <<max_retries, x_has_chunk, x_chunk, not_xfer>>

\* one underlying bulk_read into the slice in hand
ReadSlice ==
    /\ x_pc = "single"
    /\ BulkAttemptOn("read", "bulk_read", InEndpoint(b_endpoint), OutcomesUpTo(x_req))

\* read() has returned: the rest of the loop of read_exact()
ReadExactNext ==
    /\ x_pc = "single"
    /\ x_op = "read_exact"
    /\ b_pc = "idle"
    /\ x_ios' = x_ios \o SliceCalls
    /\ IF b_result.tag = "err"
       THEN XferReturns(b_result)
       ELSE IF b_result.value = 0
       THEN XferReturns(BErr(ShortRead))
       ELSE LET total_read == x_off + b_result.value
            IN  IF total_read >= x_len
                THEN XferReturns(BOk(0))
                ELSE /\ StartSingle("read", total_read, ToRead(total_read, x_len, ReadChunk))
                     /\ x_result' = BNoResult
    /\ UNCHANGED <<max_retries, b_endpoint, x_op, x_has_chunk, x_chunk, x_len, x_total, not_xfer>>

\* BulkTransfer::new(handle).with_retries(n), with or without with_chunk_size(c)
InitXfer ==
    /\ DfuNew(0)
    /\ max_retries \in 0..MaxXferRetries
    /\ b_pc = "idle"
    /\ b_op = "none"
    /\ b_endpoint = 0
    /\ b_attempt = 0
    /\ b_calls = <<>>
    /\ b_sleeps = <<>>
    /\ b_result = BNoResult
    /\ x_pc = "idle"
    /\ x_op = "none"
    /\ \/ x_has_chunk = FALSE /\ x_chunk = 0
       \/ x_has_chunk = TRUE /\ x_chunk \in 0..MaxChunk
    /\ x_len = 0
    /\ x_off = 0
    /\ x_req = 0
    /\ x_total = 0
    /\ x_ios = <<>>
    /\ x_result = BNoResult
    /\ WriterIdle
    /\ ReaderIdle
    /\ PollerIdle
    /\ ClassIdle
    /\ TailIdle

NextXferOps ==
    \/ WriteCall
    \/ WriteSlice
    \/ WriteNext
    \/ ReadExactCall
    \/ ReadSlice
    \/ ReadExactNext

SpecXfer == InitXfer /\ [][NextXferOps]_vars

----------------------------------------------------------------------------
(* Reading the history.                                                    *)

IsXfer(e, r) == e.kind = "xfer" /\ e.req = r
Reqs(r) == SelectSeq(wire, LAMBDA e : IsXfer(e, r))
Callbacks == SelectSeq(wire, LAMBDA e : e.kind = "progress")

RECURSIVE Concat(_)
Concat(evs) == IF evs = <<>> THEN <<>> ELSE evs[1].data \o Concat(Tail(evs))

IsPrefix(a, b) == Len(a) <= Len(b) /\ a = SubSeq(b, 1, Len(a))

\* positions in wire of the transfers
XferAt == {i \in 1..Len(wire) : wire[i].kind = "xfer"}
\* position of the first transfer after position i, or 0
NextXfer(i) ==
    IF \E j \in XferAt : j > i
    THEN CHOOSE j \in XferAt : j > i /\ \A k \in XferAt : k > i => j <= k
    ELSE 0

\* the events a step adds to the history (a call starts a fresh history)
NewEvents == IF pc = "idle" THEN wire' ELSE SubSeq(wire', Len(wire) + 1, Len(wire'))
\* the step completed a transfer of request r with outcome ok
Did(r, ok) == \E i \in 1..Len(NewEvents) : IsXfer(NewEvents[i], r) /\ NewEvents[i].ok = ok

Returned == pc = "idle"

----------------------------------------------------------------------------
(* C1.  For a transfer size T >= 1, download() numbers its DNLOAD requests *)
(* 0, 1, 2, ...; every payload is at most T bytes and every data block but *)
(* the last is exactly T bytes; the payloads, in request order, make up    *)
(* the firmware; a GETSTATUS lies between any two consecutive DNLOADs.     *)
(* Against a device that answers every GETSTATUS with status OK and a      *)
(* ready state, download() gets as far as the closing empty DNLOAD, by     *)
(* which time the payloads are the whole firmware.                         *)

DataBlocks == SelectSeq(wire, LAMBDA e : IsXfer(e, DNLOAD) /\ e.data # <<>>)
ClosingSent == \E i \in 1..Len(wire) : IsXfer(wire[i], DNLOAD) /\ wire[i].data = <<>>

C1_DnloadBlocks ==
    (op = "download" /\ transfer_size >= 1) =>
        LET dn == Reqs(DNLOAD) IN
        /\ \A i \in 1..Len(dn) : dn[i].value = i - 1
        /\ \A i \in 1..Len(dn) : Len(dn[i].data) <= transfer_size
        /\ \A i \in 1..(Len(DataBlocks) - 1) : Len(DataBlocks[i].data) = transfer_size
        /\ IsPrefix(Concat(dn), firmware)
        /\ ClosingSent => Concat(dn) = firmware
        /\ \A i, j \in 1..Len(wire) :
              (i < j /\ IsXfer(wire[i], DNLOAD) /\ IsXfer(wire[j], DNLOAD)) =>
                  \E k \in (i + 1)..(j - 1) : IsXfer(wire[k], GETSTATUS)
        /\ (all_ready /\ (Returned \/ pc = "dl_manifest")) =>
              ClosingSent /\ Concat(dn) = firmware

C1_Witness ==
    /\ op = "download"
    /\ transfer_size = 2
    /\ Len(firmware) = 3
    /\ all_ready
    /\ Returned
    /\ result.tag = "ok"
    /\ Len(Reqs(DNLOAD)) = 3

----------------------------------------------------------------------------
(* C2.  download() with a progress callback against the busy-once mock.    *)

\* the GETSTATUS requests issued after the closing empty DNLOAD
ManifestPolls ==
    Cardinality({k \in 1..Len(wire) :
        /\ IsXfer(wire[k], GETSTATUS)
        /\ \E i \in 1..(k - 1) : IsXfer(wire[i], DNLOAD) /\ wire[i].data = <<>>})

\* the callback runs exactly once per data block, after the GETSTATUS that
\* ended the block's wait and before any further request, with
\* (bytesSentSoFar, total), bytesSentSoFar strictly increasing
CallbackPerBlock ==
    LET cb == Callbacks IN
    /\ \A i \in 1..Len(cb) : cb[i].data = <<Len(firmware)>>
    /\ \A i, j \in 1..Len(cb) : i < j => cb[i].value < cb[j].value
    /\ \A i \in 1..Len(cb) : cb[i].value = Len(Concat(SubSeq(DataBlocks, 1, i)))
    /\ Len(cb) = block_num
    /\ \A k \in 1..Len(wire) :
          wire[k].kind = "progress" =>
              /\ k > 1 /\ IsXfer(wire[k - 1], GETSTATUS) /\ wire[k - 1].ok
              /\ k < Len(wire) => IsXfer(wire[k + 1], DNLOAD)
    /\ \A i \in 1..Len(wire) :
          (IsXfer(wire[i], DNLOAD) /\ wire[i].data # <<>> /\ NextXfer(i) # 0
              /\ IsXfer(wire[NextXfer(i)], DNLOAD)) => wire[NextXfer(i) - 1].kind = "progress"

\* C2 as stated: against a device that answers DfuDnBusy once and then
\* DfuDnloadIdle after each DNLOAD, the closing one included, download()
\* returns success once the device has given both answers, having invoked
\* the callback once per data block
C2_AsStated ==
    (op = "download" /\ has_cb /\ transfer_size >= 1 /\ mock = "strict") =>
        /\ CallbackPerBlock
        /\ (ClosingSent /\ ManifestPolls >= 2) => (Returned /\ result.tag = "ok")

\* C2 as amended: the device follows the script after each data block and,
\* after the closing empty DNLOAD, answers with status OK until it reports
\* DfuIdle or DfuManifestWaitReset.  download() then returns nothing but
\* success, returns as soon as that state is reported, and by then has
\* invoked the callback once per data block, the last time with the
\* firmware length.
C2_MockDownload ==
    (op = "download" /\ has_cb /\ transfer_size >= 1 /\ mock # "no") =>
        /\ CallbackPerBlock
        /\ Returned =>
              /\ result.tag = "ok"
              /\ Len(Callbacks) = Len(DataBlocks)
              /\ Concat(DataBlocks) = firmware
              /\ firmware # <<>> => Callbacks[Len(Callbacks)].value = Len(firmware)
        /\ (ManifestPolls >= 1 /\ last.state \in {"DfuIdle", "DfuManifestWaitReset"})
              => Returned

C2_Witness ==
    /\ op = "download"
    /\ has_cb
    /\ transfer_size = 1
    /\ mock = "data"
    /\ Returned
    /\ result.tag = "ok"
    /\ Len(Callbacks) = 3

----------------------------------------------------------------------------
(* C3.  get_status() and the status the device reports.                    *)

\* C3 as stated: get_status() returns an error carrying the status name
\* whenever the answer reports a status other than OK, and the parsed
\* answer only when the status is OK
C3_AsStated ==
    (op = "get_status" /\ Returned /\ wire[1].ok) =>
        IF last.status = "Ok"
        THEN result = Ok(last)
        ELSE result.tag = "err" /\ result.name = DfuStatus_name(last.status)

\* C3 as amended: get_status() returns the parsed answer whenever the
\* GETSTATUS transfer succeeds, whatever status the answer reports, and an
\* error only when the transfer fails; the loops of download() are what turn
\* a status other than OK into an error carrying the status name
C3_GetStatus ==
    /\ (op = "get_status" /\ Returned) =>
          IF wire[1].ok
          THEN last.parsed /\ result = Ok(last) /\ state = last.state
          ELSE result = ErrUsbLib
    /\ (op = "download" /\ Returned /\ Len(Reqs(DNLOAD)) >= 1
            /\ wire[Len(wire)] = Xfer(GETSTATUS, 0, <<>>, TRUE)
            /\ last.status # "Ok") =>
          /\ result.tag = "err"
          /\ result.name = DfuStatus_name(last.status)

C3_Witness ==
    /\ op = "get_status"
    /\ Returned
    /\ last.parsed
    /\ last.status = "ErrWrite"
    /\ result.tag = "ok"
    /\ result.value.status = "ErrWrite"

----------------------------------------------------------------------------
(* C4.  The two wait loops of download() and the answers that end them.    *)

UnexpectedInWait(s) ==
    s \notin {"DfuDnloadSync", "DfuDnBusy", "DfuManifestSync",
              "DfuDnloadIdle", "DfuIdle", "DfuManifest"}
UnexpectedInManifest(s) ==
    s \notin {"DfuManifest", "DfuManifestSync", "DfuManifestWaitReset", "DfuIdle"}

\* the step ends download() with an error right after its GETSTATUS
FailsAtOnce ==
    /\ pc' = "idle"
    /\ result'.tag = "err"
    /\ wire' = Append(wire, Xfer(GETSTATUS, 0, <<>>, TRUE))

\* C4 as stated: in both loops an answer with a status other than OK or an
\* unexpected state ends download() with an error at once
C4_AsStated ==
    [][/\ (pc = "dl_wait" /\ last'.parsed
             /\ (last'.status # "Ok" \/ UnexpectedInWait(last'.state))) => FailsAtOnce
       /\ (pc = "dl_manifest" /\ last'.parsed
             /\ (last'.status # "Ok" \/ UnexpectedInManifest(last'.state))) => FailsAtOnce
      ]_vars

\* C4 as amended: in the per-block loop an answer with a status other than
\* OK or an unexpected state ends download() with an error at once; in the
\* manifestation loop only a status other than OK does, and an answer with
\* status OK and an unexpected state is followed by a sleep of 100 ms and
\* another poll
C4_WaitLoops ==
    [][/\ (pc = "dl_wait" /\ last'.parsed
             /\ (last'.status # "Ok" \/ UnexpectedInWait(last'.state))) => FailsAtOnce
       /\ (pc = "dl_manifest" /\ last'.parsed /\ last'.status # "Ok") => FailsAtOnce
       /\ (pc = "dl_manifest" /\ last'.parsed /\ last'.status = "Ok"
             /\ UnexpectedInManifest(last'.state)) =>
                /\ pc' = "dl_manifest"
                /\ result' = NoResult
                /\ wire' = wire \o <<Xfer(GETSTATUS, 0, <<>>, TRUE), Sleep(100)>>
      ]_vars

C4_Witness ==
    /\ op = "download"
    /\ Returned
    /\ Len(Reqs(DNLOAD)) = 2
    /\ ~ClosingSent
    /\ last.status = "Ok"
    /\ last.state = "DfuManifestWaitReset"
    /\ result = ErrUnknown("Unexpected state: ", "dfuMANIFEST-WAIT-RESET")

----------------------------------------------------------------------------
(* C5.  Which steps change the cached state.                               *)

\* C5 as stated: the cached state changes only in a step in which a
\* GETSTATUS or GETSTATE transfer completed successfully
C5_AsStated ==
    [][state' # state => (Did(GETSTATUS, TRUE) \/ Did(GETSTATE, TRUE))]_vars

\* C5 as amended: the cached state changes only in a step in which a
\* GETSTATUS or GETSTATE transfer completed successfully, or in which an
\* ABORT transfer completed successfully, which sets it to DfuIdle; every
\* other request and every failed transfer leaves it unchanged
C5_StateChanges ==
    [][state' # state =>
          \/ Did(GETSTATUS, TRUE)
          \/ Did(GETSTATE, TRUE)
          \/ Did(ABORT, TRUE) /\ state' = "DfuIdle"]_vars

C5_Witness ==
    /\ op = "clear_status"
    /\ Returned
    /\ result.tag = "ok"
    /\ state = "DfuDnBusy"

----------------------------------------------------------------------------
(* C6.  abort(): when the ABORT transfer succeeds the cached state is      *)
(* DfuIdle, whatever it was, and the call returns success; when the        *)
(* transfer fails the call returns the error and the cached state is what  *)
(* it was.                                                                 *)

C6_Abort ==
    [][/\ Did(ABORT, TRUE) =>
             /\ state' = "DfuIdle"
             /\ op' = "abort" => (pc' = "idle" /\ result' = Ok(<<>>))
       /\ Did(ABORT, FALSE) =>
             /\ state' = state
             /\ pc' = "idle"
             /\ result' = ErrUsbLib
      ]_vars

C6_Witness ==
    /\ op = "abort"
    /\ Returned
    /\ result.tag = "err"
    /\ state = "DfuDnloadIdle"

----------------------------------------------------------------------------
(* C7.  upload(max_size) requests UPLOAD for the block numbers 0, 1, 2,    *)
(* ... in order and returns the blocks it received, concatenated in that   *)
(* order; it stops after the first block that is empty, that brings the    *)
(* accumulated length to max_size or more, or that is shorter than the     *)
(* transfer size, and issues no UPLOAD after that block.                   *)

\* the i-th UPLOAD of the history ended the transfer
EndsUpload(up, i) ==
    \/ Len(up[i].data) = 0
    \/ Len(Concat(SubSeq(up, 1, i))) >= max_size
    \/ Len(up[i].data) < transfer_size

C7_Upload ==
    op = "upload" =>
        LET up == Reqs(UPLOAD) IN
        /\ \A i \in 1..Len(up) : up[i].value = i - 1
        /\ up_firmware = Concat(up)
        /\ \A i \in 1..(Len(up) - 1) : up[i].ok /\ ~EndsUpload(up, i)
        /\ (Returned /\ result.tag = "ok") =>
              /\ result.value = Concat(up)
              /\ Len(up) >= 1
              /\ EndsUpload(up, Len(up))
        /\ (Len(up) >= 1 /\ up[Len(up)].ok /\ EndsUpload(up, Len(up))) =>
              (Returned /\ result.tag = "ok")

C7_Witness ==
    /\ op = "upload"
    /\ Returned
    /\ result.tag = "ok"
    /\ transfer_size = 2
    /\ max_size = 3
    /\ Len(Reqs(UPLOAD)) = 2
    /\ Len(result.value) = 4

----------------------------------------------------------------------------
(* C8.  upload() and the GETSTATUS poll after a full-size block.           *)

\* bytes received by the UPLOADs up to position i of the history
Received(i) ==
    Len(Concat(SelectSeq(SubSeq(wire, 1, i), LAMBDA e : IsXfer(e, UPLOAD))))

FullBlockAt(i) ==
    IsXfer(wire[i], UPLOAD) /\ wire[i].ok /\ Len(wire[i].data) = transfer_size

\* the transfer at position i is followed by one GETSTATUS poll before any
\* other request and before upload() returns
PollFollows(i) ==
    IF NextXfer(i) = 0
    THEN pc = "ul_status"
    ELSE /\ IsXfer(wire[NextXfer(i)], GETSTATUS)
         /\ NextXfer(NextXfer(i)) # 0 => IsXfer(wire[NextXfer(NextXfer(i))], UPLOAD)

\* C8 as stated: every block of exactly the transfer size is followed by
\* one GETSTATUS poll, the block that reaches max_size included
C8_AsStated ==
    op = "upload" =>
        \A i \in 1..Len(wire) : (FullBlockAt(i) /\ wire[i].data # <<>>) => PollFollows(i)

\* C8 as amended: every non-empty block of exactly the transfer size that
\* leaves the accumulated length below max_size is followed by one
\* GETSTATUS poll before upload() issues another request or returns; a
\* block that brings the accumulated length to max_size or more ends
\* upload() with success and without a poll
C8_PollAfterFullBlock ==
    op = "upload" =>
        \A i \in 1..Len(wire) :
            /\ (FullBlockAt(i) /\ wire[i].data # <<>> /\ Received(i) < max_size)
                  => PollFollows(i)
            /\ (FullBlockAt(i) /\ wire[i].data # <<>> /\ Received(i) >= max_size)
                  => (NextXfer(i) = 0 /\ Returned /\ result.tag = "ok")

C8_Witness ==
    /\ op = "upload"
    /\ Returned
    /\ result.tag = "ok"
    /\ transfer_size = 1
    /\ max_size = 2
    /\ Len(Reqs(UPLOAD)) = 2
    /\ Len(Reqs(GETSTATUS)) = 1
    /\ Len(result.value) = 2

----------------------------------------------------------------------------
(* C9.  BulkTransfer.read against a handle whose bulk read fails with a    *)
(* retryable error on its first N calls and then succeeds: with            *)
(* max_retries >= N it returns the byte count of the successful call after *)
(* exactly N+1 underlying reads; with max_retries < N it returns the error *)
(* of the last attempted call after exactly max_retries+1 underlying reads.*)

BReturned == b_pc = "idle"
\* the first n underlying calls failed with a retryable error
FailedRetryably(n) ==
    \A i \in 1..n : ~b_calls[i].out.ok /\ is_retryable(b_calls[i].out.e)

C9_ReadRetries ==
    b_op = "read" =>
        LET k == Len(b_calls) IN
        /\ \A i \in 1..k : b_calls[i].fn = "bulk_read"
        \* N = k - 1 failures, then a success, and max_retries >= N
        /\ (k >= 1 /\ FailedRetryably(k - 1) /\ b_calls[k].out.ok /\ max_retries >= k - 1)
              => (BReturned /\ b_result = BOk(b_calls[k].out.bytes))
        \* the handle is still failing and retries are left: read() goes on
        /\ (k >= 1 /\ FailedRetryably(k) /\ max_retries >= k) => ~BReturned
        \* N > max_retries: the call max_retries+1 was the last
        /\ (k = max_retries + 1 /\ FailedRetryably(k))
              => (BReturned /\ b_result = BErr(b_calls[k].out.e))
        /\ FailedRetryably(k) => k <= max_retries + 1

C9_Witness ==
    /\ b_op = "read"
    /\ BReturned
    /\ max_retries = 2
    /\ Len(b_calls) = 3
    /\ FailedRetryably(2)
    /\ b_calls[3].out.bytes = 2
    /\ b_result = BOk(2)

----------------------------------------------------------------------------
(* C10.  read() and write_single() retry only on Timeout, Busy and         *)
(* Interrupted: any other error is returned unchanged right after the      *)
(* underlying call that produced it, and no read or single write makes     *)
(* more than max_retries+1 underlying calls.                               *)

Retryable ==
    {[variant |-> "UsbLib", code |-> c] : c \in {"Timeout", "Busy", "Interrupted"}}

C10_RetryOnlyRetryable ==
    b_op \in {"read", "write_single"} =>
        LET k == Len(b_calls) IN
        /\ k <= max_retries + 1
        \* a call was followed by another only if it failed with one of the three
        /\ \A i \in 1..(k - 1) : ~b_calls[i].out.ok /\ b_calls[i].out.e \in Retryable
        /\ (k >= 1 /\ ~b_calls[k].out.ok /\ b_calls[k].out.e \notin Retryable)
              => (BReturned /\ b_result = BErr(b_calls[k].out.e))
        /\ Len(b_sleeps) = (IF BReturned /\ k >= 1 THEN k - 1 ELSE k)
        /\ \A i \in 1..Len(b_sleeps) : b_sleeps[i] = 10 * i

C10_Witness ==
    /\ b_op = "write_single"
    /\ BReturned
    /\ max_retries = 3
    /\ Len(b_calls) = 2
    /\ b_calls[1].out.e.code = "Busy"
    /\ b_result = BErr([variant |-> "UsbLib", code |-> "Pipe"])

----------------------------------------------------------------------------
(* communication/bulk.rs: BulkWriter.  One action is one pass of the for   *)
(* loop of write(), or one whole flush() or drop.  The bytes passed in are *)
(* numbered, so that every byte of the stream is told from the others.     *)

NewLine == 10

\* the k bytes passed after the n bytes passed before
FreshBytes(n, k) == [i \in 1..k |-> 10 + n + i]

\* the device writes so far that failed or accepted less than offered
WriterFaults ==
    Cardinality({i \in 1..Len(w_out) : ~w_out[i].ok \/ w_out[i].bytes < Len(w_out[i].data)})

\* what handle.bulk_write(endpoint, &buffer, timeout) can bring back for a
\* buffer of n bytes: all of them accepted, fewer, or an error
WriterOutcomes(n) ==
    {o \in OutcomesUpTo(n) :
        \/ o.ok /\ o.bytes = n
        \/ /\ WriterFaults < MaxFail
           /\ \/ o.ok /\ o.bytes = n - 1
              \/ ~o.ok /\ o.e.code \in {"Timeout", "Pipe"}}

DevWrite(data, o) == [data |-> data, ok |-> o.ok, bytes |-> o.bytes]

\* faulty variant of flush: the buffer is cleared before the device write,
\* which sends nothing
flush_ClearFirst(buffer, o) == [buffer |-> <<>>, out |-> <<>>, ret |-> BOk(0)]

\* flush(): the buffer afterwards, the device write issued, the result,
\* when the device answers o
flush(buffer, o) ==
    IF buffer = <<>>
    THEN [buffer |-> <<>>, out |-> <<>>, ret |-> BOk(0)]
    ELSE IF o.ok
    THEN [buffer |-> <<>>, out |-> <<DevWrite(buffer, o)>>, ret |-> BOk(0)]
    ELSE [buffer |-> buffer, out |-> <<DevWrite(buffer, o)>>, ret |-> BErr(o.e)]

\* faulty variant of BufferFull: the flush comes one byte late
BufferFull_Late(len, size) == len > size

\* write(): `self.buffer.len() >= self.buffer_size`
BufferFull(len, size) == len >= size

\* the operation returns r
WriterReturns(r) ==
    /\ w_result' = r
    /\ w_pc' = "idle"
    /\ w_rest' = <<>>

\* write(buf) is entered with the next k bytes of the stream
WriterEnter(k) ==
    /\ w_in' = w_in \o FreshBytes(Len(w_in), k)
    /\ w_rest' = FreshBytes(Len(w_in), k)
    /\ w_pc' = "push"
    /\ w_result' = BNoResult

\* BulkWriter::write(buf), called by the user
WriterWriteCall ==
    /\ w_alive /\ w_pc = "idle"
    /\ w_op' = "write"
    /\ w_stage' = "-"
    /\ \E k \in 0..MaxWrite :
          /\ Len(w_in) + k <= MaxIn
          /\ IF k = 0
             THEN WriterReturns(BOk(0)) /\ UNCHANGED w_in
             ELSE WriterEnter(k)
    /\ UNCHANGED <<w_size, w_buffer, w_alive, w_out, not_writer>>

\* BulkWriter::write_line(line): write(line.as_bytes()) is entered
WriterWriteLineCall ==
    /\ w_alive /\ w_pc = "idle"
    /\ w_op' = "write_line"
    /\ \E k \in 0..MaxWrite :
          /\ Len(w_in) + k + 1 <= MaxIn
          /\ IF k = 0
             THEN /\ w_in' = Append(w_in, NewLine)
                  /\ w_rest' = <<NewLine>>
                  /\ w_stage' = "nl"
             ELSE /\ w_in' = w_in \o FreshBytes(Len(w_in), k)
                  /\ w_rest' = FreshBytes(Len(w_in), k)
                  /\ w_stage' = "line"
    /\ w_pc' = "push"
    /\ w_result' = BNoResult
    /\ UNCHANGED <<w_size, w_buffer, w_alive, w_out, not_writer>>

\* one pass of the for loop of write(), and what follows the loop's end
WriterPush ==
    /\ w_pc = "push"
    /\ LET pushed == Append(w_buffer, Head(w_rest))
           rest == Tail(w_rest)
       IN  \E o \in WriterOutcomes(Len(pushed)) :
              LET f == IF BufferFull(Len(pushed), w_size)
                       THEN flush(pushed, o)
                       ELSE [buffer |-> pushed, out |-> <<>>, ret |-> BOk(0)]
              IN  /\ w_buffer' = f.buffer
                  /\ w_out' = w_out \o f.out
                  /\ IF f.ret.tag = "err"
                     THEN WriterReturns(f.ret) /\ UNCHANGED <<w_in, w_stage>>
                     ELSE IF rest # <<>>
                     THEN /\ w_rest' = rest
                          /\ UNCHANGED <<w_pc, w_result, w_in, w_stage>>
                     ELSE IF w_op = "write"
                     THEN WriterReturns(BOk(0)) /\ UNCHANGED <<w_in, w_stage>>
                     ELSE IF w_stage = "line"
                     THEN /\ w_in' = Append(w_in, NewLine)
                          /\ w_rest' = <<NewLine>>
                          /\ w_stage' = "nl"
                          /\ UNCHANGED <<w_pc, w_result>>
                     ELSE /\ w_stage' = "flush"
                          /\ w_pc' = "flush"
                          /\ w_rest' = <<>>
                          /\ UNCHANGED <<w_result, w_in>>
    /\ UNCHANGED <<w_size, w_alive, w_op, not_writer>>

\* write_line(): the closing self.flush()
WriterLineFlush ==
    /\ w_pc = "flush"
    /\ \E o \in WriterOutcomes(Len(w_buffer)) :
          LET f == flush(w_buffer, o) IN
          /\ w_buffer' = f.buffer
          /\ w_out' = w_out \o f.out
          /\ WriterReturns(f.ret)
    /\ UNCHANGED <<w_size, w_alive, w_op, w_stage, w_in, not_writer>>

\* BulkWriter::flush(), called by the user
WriterFlush ==
    /\ w_alive /\ w_pc = "idle"
    /\ w_op' = "flush"
    /\ w_stage' = "-"
    /\ \E o \in WriterOutcomes(Len(w_buffer)) :
          LET f == flush(w_buffer, o) IN
          /\ w_buffer' = f.buffer
          /\ w_out' = w_out \o f.out
          /\ WriterReturns(f.ret)
    /\ UNCHANGED <<w_size, w_alive, w_in, not_writer>>

\* Drop for BulkWriter: `let _ = self.flush();`
WriterDrop ==
    /\ w_alive /\ w_pc = "idle"
    /\ w_op' = "drop"
    /\ w_stage' = "-"
    /\ w_alive' = FALSE
    /\ \E o \in WriterOutcomes(Len(w_buffer)) :
          LET f == flush(w_buffer, o) IN
          /\ w_buffer' = f.buffer
          /\ w_out' = w_out \o f.out
    /\ UNCHANGED <<w_size, w_pc, w_rest, w_in, w_result, not_writer>>

\* BulkWriter::new(handle, endpoint, buffer_size)
InitWriter ==
    /\ DfuNew(0)
    /\ BulkIdle
    /\ XferIdle
    /\ w_size \in 0..MaxCap
    /\ w_buffer = <<>>
    /\ w_alive = TRUE
    /\ w_pc = "idle"
    /\ w_op = "none"
    /\ w_stage = "-"
    /\ w_rest = <<>>
    /\ w_in = <<>>
    /\ w_out = <<>>
    /\ w_result = BNoResult
    /\ ReaderIdle
    /\ PollerIdle
    /\ ClassIdle
    /\ TailIdle

NextWriter ==
    \/ WriterWriteCall
    \/ WriterWriteLineCall
    \/ WriterPush
    \/ WriterLineFlush
    \/ WriterFlush
    \/ WriterDrop

SpecWriter == InitWriter /\ [][NextWriter]_vars

----------------------------------------------------------------------------
(* communication/bulk.rs: BulkReader.  One action is a call up to its      *)
(* first device read, or one device read and the code that follows it up   *)
(* to the next one.                                                        *)

LF == 10
CR == 13

\* the bytes a device sends: '\n', '\r', 'a', and 0xFF, which no UTF-8
\* text contains
StreamBytes == {LF, CR, 97, 255}

RECURSIVE SeqsOf(_, _)
\* the sequences over S of length n
SeqsOf(S, n) ==
    IF n = 0 THEN {<<>>}
    ELSE {Append(q, b) : q \in SeqsOf(S, n - 1), b \in S}

\* what handle.bulk_read(endpoint, &mut buffer, timeout) can put in a buffer
\* of n bytes
DevData(n) == UNION {SeqsOf(StreamBytes, k) : k \in 0..n}

\* buffer[buffer_pos..buffer_len]
Unread == SubSeq(r_buffer, r_pos + 1, Len(r_buffer))

\* String::from_utf8(line).map_err(|e| UsbError::Parse(..)), on StreamBytes:
\* a byte below 0x80 is a character, 0xFF is never part of one
from_utf8(line) ==
    IF \A i \in 1..Len(line) : line[i] < 128 THEN ROk(line) ELSE RErr("Parse")

\* faulty variant of StripCR: every trailing '\r' is removed
RECURSIVE StripCR_All(_)
StripCR_All(line) ==
    IF line # <<>> /\ line[Len(line)] = CR
    THEN StripCR_All(SubSeq(line, 1, Len(line) - 1))
    ELSE line

\* read_line: `if line.last() == Some(&b'\r') { line.pop(); }`
StripCR(line) ==
    IF line # <<>> /\ line[Len(line)] = CR
    THEN SubSeq(line, 1, Len(line) - 1)
    ELSE line

RECURSIVE LineScan(_, _)
\* read_line's loop over the bytes already buffered: the line so far, the
\* number of bytes taken, and whether a '\n' ended the line
LineScan(unread, line) ==
    IF unread = <<>> THEN [done |-> FALSE, line |-> line, used |-> 0]
    ELSE IF Head(unread) = LF THEN [done |-> TRUE, line |-> StripCR(line), used |-> 1]
    ELSE LET r == LineScan(Tail(unread), Append(line, Head(unread)))
         IN  [done |-> r.done, line |-> r.line, used |-> r.used + 1]

\* faulty variant of Drained: the buffered bytes are left where they are
Drained_None(want, unread) == 0

\* read: the bytes the first loop copies out of the buffer
Drained(want, unread) == Min(want, Len(unread))

\* the operation returns r
ReaderReturns(r) ==
    /\ r_result' = r
    /\ r_pc' = "idle"

\* BulkReader::read(buf) up to its first device read
ReaderReadCall ==
    /\ r_pc = "idle"
    /\ r_op' = "read"
    /\ r_zero' = FALSE
    /\ r_start' = Len(r_dev) - Len(Unread)
    /\ \E want \in 0..MaxWant :
          LET d == Drained(want, Unread)
              got == SubSeq(Unread, 1, d)
          IN  /\ r_want' = want
              /\ r_pos' = r_pos + d
              /\ IF d = want
                 THEN /\ ReaderReturns(ROk(got))
                      /\ r_out' = r_out \o got
                      /\ r_got' = <<>>
                 ELSE /\ r_pc' = "fill"
                      /\ r_got' = got
                      /\ r_result' = RNoResult
                      /\ UNCHANGED r_out
    /\ UNCHANGED <<r_size, r_buffer, r_line, r_clean, r_dev, not_reader>>

\* BulkReader::read_line() up to its first device read
ReaderReadLineCall ==
    /\ r_pc = "idle"
    /\ r_op' = "read_line"
    /\ r_zero' = FALSE
    /\ r_start' = Len(r_dev) - Len(Unread)
    /\ LET scan == LineScan(Unread, <<>>) IN
          /\ r_pos' = r_pos + scan.used
          /\ r_out' = r_out \o SubSeq(Unread, 1, scan.used)
          /\ IF scan.done
             THEN ReaderReturns(from_utf8(scan.line)) /\ r_line' = <<>>
             ELSE /\ r_pc' = "fill"
                  /\ r_line' = scan.line
                  /\ r_result' = RNoResult
    /\ UNCHANGED <<r_size, r_buffer, r_want, r_got, r_clean, r_dev, not_reader>>

\* read: one pass of the second loop, after a device read that brought data
ReadFill(data) ==
    /\ r_buffer' = data
    /\ r_dev' = r_dev \o data
    /\ IF data = <<>>
       THEN /\ r_pos' = 0
            /\ r_zero' = TRUE
            /\ ReaderReturns(ROk(r_got))
            /\ r_out' = r_out \o r_got
            /\ r_got' = <<>>
       ELSE LET d == Min(r_want - Len(r_got), Len(data))
                got == r_got \o SubSeq(data, 1, d)
            IN  /\ r_pos' = d
                /\ UNCHANGED r_zero
                /\ IF Len(got) = r_want
                   THEN /\ ReaderReturns(ROk(got))
                        /\ r_out' = r_out \o got
                        /\ r_got' = <<>>
                   ELSE /\ r_got' = got
                        /\ UNCHANGED <<r_pc, r_result, r_out>>
    /\ UNCHANGED <<r_line, r_clean>>

\* read_line: the loop after a device read that brought data
LineFill(data) ==
    /\ r_buffer' = data
    /\ r_dev' = r_dev \o data
    /\ IF data = <<>>
       THEN /\ r_pos' = 0
            /\ r_zero' = TRUE
            /\ ReaderReturns(from_utf8(r_line))
            /\ r_line' = <<>>
            /\ UNCHANGED r_out
       ELSE LET scan == LineScan(data, r_line) IN
            /\ r_pos' = scan.used
            /\ r_out' = r_out \o SubSeq(data, 1, scan.used)
            /\ UNCHANGED r_zero
            /\ IF scan.done
               THEN ReaderReturns(from_utf8(scan.line)) /\ r_line' = <<>>
               ELSE r_line' = scan.line /\ UNCHANGED <<r_pc, r_result>>
    /\ UNCHANGED <<r_got, r_clean>>

\* the device read fails: `?` returns the error, the reader is as it was
ReaderFails ==
    /\ ReaderReturns(RErr("UsbLib"))
    /\ r_clean' = FALSE
    /\ r_got' = <<>>
    /\ r_line' = <<>>
    /\ UNCHANGED <<r_buffer, r_pos, r_zero, r_dev, r_out>>

\* one device read of read() or read_line() and the code up to the next one
ReaderFill ==
    /\ r_pc = "fill"
    /\ \/ ReaderFails
       \/ \E data \in DevData(Min(r_size, MaxStream - Len(r_dev))) :
             IF r_op = "read" THEN ReadFill(data) ELSE LineFill(data)
    /\ UNCHANGED <<r_size, r_op, r_want, r_start, not_reader>>

\* BulkReader::new(handle, endpoint, buffer_size)
InitReader ==
    /\ DfuNew(0)
    /\ BulkIdle
    /\ XferIdle
    /\ WriterIdle
    /\ \E size \in 0..MaxRBuf : ReaderNew(size)
    /\ PollerIdle
    /\ ClassIdle
    /\ TailIdle

NextReader ==
    \/ ReaderReadCall
    \/ ReaderReadLineCall
    \/ ReaderFill

SpecReader == InitReader /\ [][NextReader]_vars

----------------------------------------------------------------------------
(* InterruptPoller (communication/interrupt.rs).  poll() runs on one      *)
(* thread; stop() is called from any other thread at any moment.  The     *)
(* steps of poll() are the points at which the flag is written or read    *)
(* and the points at which the thread is inside interrupt_read or inside  *)
(* the callback.                                                          *)

\* the bytes an interrupt endpoint delivers
PollBytes == {1, 2}

\* one entry of the history of a poll() call
PEvent(ev, data, ret) == [ev |-> ev, data |-> data, ret |-> ret]

\* the read wrote data into the front of buffer
ReadInto(buffer, data) ==
    [i \in 1..Len(buffer) |-> IF i <= Len(data) THEN data[i] ELSE buffer[i]]

\* faulty variant of CallbackArg: the whole buffer
CallbackArg_Whole(buffer, bytes) == buffer
\* &buffer[..bytes]
CallbackArg(buffer, bytes) == SubSeq(buffer, 1, bytes)

\* faulty variant of LoopContinues: the flag is not consulted
LoopContinues_Always(running) == TRUE
\* while self.running.load(Ordering::SeqCst)
LoopContinues(running) == running

\* poll() returns r
PollReturns(r) ==
    /\ p_pc' = "idle"
    /\ p_result' = r

\* poll(handle, callback) is called
PollCall ==
    /\ p_pc = "idle"
    /\ p_pc' = "store"
    /\ p_result' = PNoResult
    /\ p_reads' = 0
    /\ p_log' = <<>>
    /\ p_stop_at' = "-"
    /\ p_after' = 0
    /\ p_early' = FALSE
    /\ UNCHANGED <<p_size, p_running, p_buffer, p_bytes, not_poller>>

\* self.running.store(true); let mut buffer = vec![0u8; self.buffer_size]
PollStore ==
    /\ p_pc = "store"
    /\ p_running' = TRUE
    /\ p_buffer' = Zeros(p_size)
    /\ p_pc' = "check"
    /\ UNCHANGED <<p_size, p_bytes, p_reads, p_log, p_stop_at, p_after, p_early, p_result,
                   not_poller>>

\* the loop condition: the flag is loaded; the loop is left with Ok(()) when
\* it is false
PollCheck ==
    /\ p_pc = "check"
    /\ IF LoopContinues(p_running)
       THEN /\ p_reads < MaxPollReads
            /\ p_pc' = "loaded"
            /\ UNCHANGED p_result
       ELSE PollReturns(POk)
    /\ UNCHANGED <<p_size, p_running, p_buffer, p_bytes, p_reads, p_log, p_stop_at,
                   p_after, p_early, not_poller>>

\* handle.interrupt_read(self.endpoint, &mut buffer, self.poll_interval) is
\* entered
PollIssue ==
    /\ p_pc = "loaded"
    /\ p_pc' = "read"
    /\ p_reads' = p_reads + 1
    /\ p_log' = Append(p_log, PEvent("read", <<>>, FALSE))
    /\ p_after' = IF p_stop_at = "-" THEN p_after ELSE p_after + 1
    /\ UNCHANGED <<p_size, p_running, p_buffer, p_bytes, p_stop_at, p_early, p_result,
                   not_poller>>

\* interrupt_read returns Ok(bytes): the callback is entered
PollData(data) ==
    /\ p_pc = "read"
    /\ p_buffer' = ReadInto(p_buffer, data)
    /\ p_bytes' = Len(data)
    /\ p_pc' = "callback"
    /\ p_log' = p_log \o <<PEvent("data", data, FALSE)>>
    /\ UNCHANGED <<p_size, p_running, p_reads, p_stop_at, p_after, p_early, p_result,
                   not_poller>>

\* interrupt_read returns Err(UsbLib(Timeout)): continue
PollTimeout ==
    /\ p_pc = "read"
    /\ p_pc' = "check"
    /\ p_log' = Append(p_log, PEvent("timeout", <<>>, FALSE))
    /\ UNCHANGED <<p_size, p_running, p_buffer, p_bytes, p_reads, p_stop_at, p_after,
                   p_early, p_result, not_poller>>

\* interrupt_read returns another error e: the flag is cleared and e returned
PollError(e) ==
    /\ p_pc = "read"
    /\ p_running' = FALSE
    /\ p_log' = Append(p_log, PEvent(e, <<>>, FALSE))
    /\ PollReturns(PErr(e))
    /\ UNCHANGED <<p_size, p_buffer, p_bytes, p_reads, p_stop_at, p_after, p_early,
                   not_poller>>

\* the errors of interrupt_read other than Timeout
PollErrors == {"Pipe", "NoDevice"}

\* interrupt_read returns
PollComplete ==
    \/ \E n \in 0..p_size : \E data \in SeqsOf(PollBytes, n) : PollData(data)
    \/ PollTimeout
    \/ \E e \in PollErrors : PollError(e)

\* callback(&buffer[..bytes]) returns ret; false leaves the loop
PollCallback ==
    /\ p_pc = "callback"
    /\ \E ret \in BOOLEAN :
        /\ p_log' = Append(p_log, PEvent("callback", CallbackArg(p_buffer, p_bytes), ret))
        /\ IF ret
           THEN p_pc' = "check" /\ UNCHANGED p_result
           ELSE PollReturns(POk)
    /\ UNCHANGED <<p_size, p_running, p_buffer, p_bytes, p_reads, p_stop_at, p_after,
                   p_early, not_poller>>

\* poll() is inside its while loop
InLoop == p_pc \in {"check", "loaded", "read", "callback"}

\* stop(), on another thread: self.running.store(false)
Stop ==
    /\ p_running' = FALSE
    /\ p_stop_at' = IF InLoop /\ p_stop_at = "-" THEN p_pc ELSE p_stop_at
    /\ p_early' = (p_early \/ p_pc = "store")
    /\ UNCHANGED <<p_size, p_pc, p_buffer, p_bytes, p_reads, p_log, p_after, p_result,
                   not_poller>>

\* the steps of the thread inside poll()
PollStep ==
    \/ PollStore
    \/ PollCheck
    \/ PollIssue
    \/ PollComplete
    \/ PollCallback

\* InterruptPoller::new(endpoint, buffer_size)
InitPoller ==
    /\ DfuNew(0)
    /\ BulkIdle
    /\ XferIdle
    /\ WriterIdle
    /\ ReaderIdle
    /\ \E size \in 0..MaxPBuf : PollerNew(size)
    /\ ClassIdle
    /\ TailIdle

NextPoller ==
    \/ PollCall
    \/ PollStep
    \/ Stop

SpecPoller == InitPoller /\ [][NextPoller]_vars

\* the thread inside poll() keeps running, every interrupt read returns (it
\* has a timeout) and the callback returns
SpecPollerFair == SpecPoller /\ WF_vars(PollStep)

----------------------------------------------------------------------------
(* The protocol classifier (handshake/) over the device record (model.rs). *)
(* A string is the sequence of its characters.                              *)

UpperCase == <<"A", "B", "C", "D", "E", "F", "G", "H", "I", "J", "K", "L", "M", "N", "O", "P", "Q", "R", "S", "T", "U", "V", "W", "X", "Y", "Z">>
LowerCase == <<"a", "b", "c", "d", "e", "f", "g", "h", "i", "j", "k", "l", "m", "n", "o", "p", "q", "r", "s", "t", "u", "v", "w", "x", "y", "z">>

\* char::to_ascii_lowercase; on ASCII, what str::to_lowercase does to a char
to_lower(ch) ==
    IF \E i \in 1..Len(UpperCase) : UpperCase[i] = ch
    THEN LowerCase[CHOOSE i \in 1..Len(UpperCase) : UpperCase[i] = ch]
    ELSE ch

\* str::to_lowercase
to_lowercase(str) == [i \in 1..Len(str) |-> to_lower(str[i])]

\* str::contains(pattern)
contains(str, pattern) ==
    \E i \in 0..(Len(str) - Len(pattern)) : SubSeq(str, i + 1, i + Len(pattern)) = pattern

\* str::eq_ignore_ascii_case
eq_ignore_ascii_case(a, b) == to_lowercase(a) = to_lowercase(b)

\* UsbDeviceRecord::has_tag
has_tag(device, tag) ==
    \E i \in 1..Len(device.tags) : eq_ignore_ascii_case(device.tags[i], tag)

\* UsbDeviceRecord::add_tag
add_tag(device, tag) ==
    IF \E i \in 1..Len(device.tags) : device.tags[i] = tag
    THEN device
    ELSE [device EXCEPT !.tags = Append(@, tag)]

\* the string literals of the probes
s_adb == <<"a", "d", "b">>
s_fastboot == <<"f", "a", "s", "t", "b", "o", "o", "t">>
s_bootloader == <<"b", "o", "o", "t", "l", "o", "a", "d", "e", "r">>
s_apple == <<"a", "p", "p", "l", "e">>
s_iphone == <<"i", "p", "h", "o", "n", "e">>
s_ipad == <<"i", "p", "a", "d">>
s_ipod == <<"i", "p", "o", "d">>
s_mtp == <<"m", "t", "p">>
s_media_transfer == <<"m", "e", "d", "i", "a", " ", "t", "r", "a", "n", "s", "f", "e", "r">>
s_android == <<"a", "n", "d", "r", "o", "i", "d">>

\* adb_probe::is_adb_device
is_adb_device(device) ==
    \/ device.vid = 6353 /\ device.pid \in 20193..20199       \* 0x18d1, 0x4ee1..=0x4ee7
    \/ device.vid = 1256 /\ device.pid \in {26720, 26724}     \* 0x04e8, 0x6860 | 0x6864
    \/ /\ device.device_class = SomeByte(255)
       /\ device.product.some
       /\ contains(to_lowercase(device.product.v), s_adb)
    \/ has_tag(device, s_adb)

\* fastboot_probe::is_fastboot_device
is_fastboot_device(device) ==
    \/ device.vid = 6353 /\ device.pid \in {20192, 53261, 3330}   \* 0x4ee0 | 0xd00d | 0x0d02
    \/ device.vid = 1478 /\ device.pid = 36872                    \* 0x05c6, 0x9008
    \/ /\ device.product.some
       /\ \/ contains(to_lowercase(device.product.v), s_fastboot)
          \/ contains(to_lowercase(device.product.v), s_bootloader)
    \/ has_tag(device, s_fastboot)

APPLE_VENDOR_ID == 1452

\* 0x1290..0x1293, 0x12a0..0x12a3, 0x1294, 0x1297, 0x129a, 0x129c, 0x12ab, 0x12ac
apple_device_pids ==
    (4752..4755) \cup (4768..4771) \cup {4756, 4759, 4762, 4764, 4779, 4780}

\* apple_probe::is_apple_device
is_apple_device(device) ==
    IF device.vid # APPLE_VENDOR_ID THEN FALSE
    ELSE
        \/ device.pid \in apple_device_pids
        \/ /\ device.manufacturer.some
           /\ contains(to_lowercase(device.manufacturer.v), s_apple)
        \/ /\ device.product.some
           /\ \/ contains(to_lowercase(device.product.v), s_iphone)
              \/ contains(to_lowercase(device.product.v), s_ipad)
              \/ contains(to_lowercase(device.product.v), s_ipod)
        \/ has_tag(device, s_apple)

\* mtp_probe::is_mtp_device
is_mtp_device(device) ==
    \/ /\ device.device_class = SomeByte(6)
       /\ device.device_subclass = SomeByte(1)
       /\ device.device_protocol = SomeByte(1)
    \/ /\ device.product.some
       /\ \/ contains(to_lowercase(device.product.v), s_mtp)
          \/ contains(to_lowercase(device.product.v), s_media_transfer)
    \/ /\ device.manufacturer.some
       /\ contains(to_lowercase(device.manufacturer.v), s_android)
       /\ device.device_class \in {SomeByte(0), SomeByte(255)}
    \/ has_tag(device, s_mtp)

\* the protocols pushed by the four probes, in order
Pushed(device) ==
    (IF is_adb_device(device) THEN <<"Adb">> ELSE <<>>)
    \o (IF is_fastboot_device(device) THEN <<"Fastboot">> ELSE <<>>)
    \o (IF is_apple_device(device) THEN <<"AppleDevice">> ELSE <<>>)
    \o (IF is_mtp_device(device) THEN <<"Mtp">> ELSE <<>>)

\* faulty variant of classify_device_protocols: no Unknown is pushed
classify_device_protocols_Bare(device) == Pushed(device)
\* handshake::classify_device_protocols
classify_device_protocols(device) ==
    IF Pushed(device) = <<>> THEN <<"Unknown">> ELSE Pushed(device)

\* vendor and product ids of the records examined: Google ADB, Google
\* fastboot, Samsung ADB, Qualcomm EDL, an iPad, another Apple product, and
\* a device of an unlisted vendor
SampleIds ==
    {<<6353, 20194>>, <<6353, 20192>>, <<1256, 26720>>, <<1478, 36872>>,
     <<APPLE_VENDOR_ID, 4768>>, <<APPLE_VENDOR_ID, 1>>, <<4660, 1>>}

\* device_class, device_subclass and device_protocol of the records examined:
\* unread, per-interface, the MTP triple, imaging without a protocol, and
\* vendor-specific
SampleClasses ==
    {<<NoByte, NoByte, NoByte>>, <<SomeByte(0), SomeByte(0), SomeByte(0)>>,
     <<SomeByte(6), SomeByte(1), SomeByte(1)>>, <<SomeByte(6), SomeByte(1), NoByte>>,
     <<SomeByte(255), NoByte, NoByte>>}

SampleManufacturers ==
    {NoString, SomeString(<<"A", "p", "p", "l", "e">>), SomeString(<<"A", "n", "d", "r", "o", "i", "d">>)}

SampleProducts ==
    {NoString, SomeString(<<"A", "D", "B">>), SomeString(<<"F", "a", "s", "t", "b", "o", "o", "t">>),
     SomeString(<<"i", "P", "a", "d">>), SomeString(<<"M", "T", "P">>)}

\* the tags callers add: the recognized ones, one of them in upper case, and
\* one that no probe knows
SampleTags ==
    {s_adb, s_fastboot, s_apple, <<"M", "T", "P">>, <<"u", "s", "b">>}

\* the records a scan hands to the classifier, before any tag is added
SampleRecords ==
    {DeviceRecord(id[1], id[2], class[1], class[2], class[3], manufacturer, product, <<>>) :
        id \in SampleIds, class \in SampleClasses,
        manufacturer \in SampleManufacturers, product \in SampleProducts}

\* classify_device_protocols(&record)
Classify ==
    /\ c_pc = "new"
    /\ c_result' = classify_device_protocols(c_rec)
    /\ c_pc' = "classified"
    /\ UNCHANGED <<c_rec, c_prev_result, c_added, not_class>>

\* record.add_tag(tag), before the record is classified again
AddTag(tag) ==
    /\ c_pc = "classified"
    /\ Len(c_rec.tags) < MaxTags
    /\ c_rec' = add_tag(c_rec, tag)
    /\ c_prev_result' = c_result
    /\ c_added' = tag
    /\ c_result' = <<>>
    /\ c_pc' = "new"
    /\ UNCHANGED not_class

InitClass ==
    /\ DfuNew(0)
    /\ BulkIdle
    /\ XferIdle
    /\ WriterIdle
    /\ ReaderIdle
    /\ PollerIdle
    /\ \E rec \in SampleRecords : ClassNew(rec)
    /\ TailIdle

NextClass ==
    \/ Classify
    \/ \E tag \in SampleTags : AddTag(tag)

SpecClass == InitClass /\ [][NextClass]_vars

----------------------------------------------------------------------------
(* The scan (enumerate/common.rs, enumerate/libusb.rs).  The transport is  *)
(* the environment: obtaining the context or the device list can fail, and *)
(* for each device of the list the descriptor read, the open, the language *)
(* list read and each string read can fail on its own.                     *)

\* what probing one device can meet: desc, open and the three strings tell
\* whether that read succeeded, langs is "ok", "empty" or "err"; a read that
\* is not reached is entered as failed
ProbeOutcome(desc, open, langs, m, p, s) ==
    [desc |-> desc, open |-> open, langs |-> langs, manufacturer |-> m, product |-> p,
     serial_number |-> s]

ProbeOutcomes ==
    {ProbeOutcome(FALSE, FALSE, "err", FALSE, FALSE, FALSE),
     ProbeOutcome(TRUE, FALSE, "err", FALSE, FALSE, FALSE),
     ProbeOutcome(TRUE, TRUE, "err", FALSE, FALSE, FALSE),
     ProbeOutcome(TRUE, TRUE, "empty", FALSE, FALSE, FALSE)}
    \cup {ProbeOutcome(TRUE, TRUE, "ok", m, p, s) : m \in BOOLEAN, p \in BOOLEAN, s \in BOOLEAN}

\* the string descriptors of a device, when they can be read
DevManufacturer == SomeString(<<"M">>)
DevProduct == SomeString(<<"P">>)
DevSerial == SomeString(<<"S">>)

\* the record built for the device at position dev of the list
ScanRecord(dev, m, p, s) ==
    [dev |-> dev, manufacturer |-> m, product |-> p, serial_number |-> s]

\* the strings as read on outcome o
WithStrings(dev, o) ==
    ScanRecord(dev,
               IF o.manufacturer THEN DevManufacturer ELSE NoString,
               IF o.product THEN DevProduct ELSE NoString,
               IF o.serial_number THEN DevSerial ELSE NoString)

\* FallbackEnumerator::enumerate, the body of the for loop: what is pushed
FallbackProbe(dev, o) ==
    IF ~o.desc THEN <<>>
    ELSE IF ~o.open THEN <<ScanRecord(dev, NoString, NoString, NoString)>>
    ELSE IF o.langs # "ok" THEN <<>>
    ELSE <<WithStrings(dev, o)>>

\* enumerate_libusb, the body of the for loop with probe_usb_candidate: what
\* is pushed
LibusbProbe(dev, o) ==
    IF ~o.desc THEN <<>>
    ELSE IF ~o.open \/ o.langs # "ok" THEN <<ScanRecord(dev, NoString, NoString, NoString)>>
    ELSE <<WithStrings(dev, o)>>

Probe(kind, dev, o) == IF kind = "fallback" THEN FallbackProbe(dev, o) ELSE LibusbProbe(dev, o)

\* what obtaining the device list can give: enumerate_libusb creates a
\* context of its own first
Transports(kind) ==
    IF kind = "fallback" THEN {"ok", "list_err"} ELSE {"ok", "ctx_err", "list_err"}

\* faulty variant of ScanResult: a scan that kept no device is an error
ScanResult_EmptyIsError(transport, records) ==
    IF transport = "ok" /\ records # <<>> THEN EOk(records) ELSE EErr(transport)
\* rusb::devices()? / Context::new()? / context.devices()? and Ok(records)
ScanResult(transport, records) ==
    IF transport = "ok" THEN EOk(records) ELSE EErr(transport)

\* the scan returns r
ScanReturns(r) ==
    /\ e_pc' = "idle"
    /\ e_result' = r

\* enumerate() / enumerate_libusb() is called: up to the for loop
ScanCall(kind) ==
    /\ e_pc = "idle"
    /\ e_kind' = kind
    /\ e_seen' = <<>>
    /\ e_records' = <<>>
    /\ \E t \in Transports(kind) :
          /\ e_transport' = t
          /\ IF t = "ok"
             THEN /\ e_n' \in 0..MaxDevs
                  /\ e_pc' = "loop"
                  /\ e_result' = ENoResult
             ELSE /\ e_n' = 0
                  /\ ScanReturns(ScanResult(t, <<>>))
    /\ UNCHANGED <<parse_vars, not_scan>>

\* one pass of the for loop
ScanDevice ==
    /\ e_pc = "loop"
    /\ Len(e_seen) < e_n
    /\ \E o \in ProbeOutcomes :
          /\ e_seen' = Append(e_seen, o)
          /\ e_records' = e_records \o Probe(e_kind, Len(e_seen) + 1, o)
    /\ UNCHANGED <<e_kind, e_pc, e_transport, e_n, e_result, parse_vars, not_scan>>

\* the list is exhausted: Ok(records)
ScanReturn ==
    /\ e_pc = "loop"
    /\ Len(e_seen) = e_n
    /\ ScanReturns(ScanResult(e_transport, e_records))
    /\ UNCHANGED <<e_kind, e_transport, e_n, e_seen, e_records, parse_vars, not_scan>>

InitScan ==
    /\ DfuNew(0)
    /\ BulkIdle
    /\ XferIdle
    /\ WriterIdle
    /\ ReaderIdle
    /\ PollerIdle
    /\ ClassIdle
    /\ ScanIdle
    /\ ParseIdle

NextScan ==
    \/ \E kind \in {"fallback", "libusb"} : ScanCall(kind)
    \/ ScanDevice
    \/ ScanReturn

SpecScan == InitScan /\ [][NextScan]_vars

----------------------------------------------------------------------------
(* The parsers of protocols/dfu.rs applied to buffers of every length.     *)

\* the largest u8
U8Max == 255

\* data cut to n bytes, or filled up to n bytes with 0xFF
Resize(data, n) == [i \in 1..n |-> IF i <= Len(data) THEN data[i] ELSE U8Max]

\* 6-byte GETSTATUS answers: status bytes with and without a name of their
\* own, timeouts with each of the three bytes set, known and unknown state
\* bytes, two string indices
StatusSamples ==
    {<<s, t1, t2, t3, st, i>> :
        s \in {0, 1, 15, 16, U8Max}, t1 \in {0, 1, U8Max}, t2 \in {0, 1, U8Max},
        t3 \in {0, 1, U8Max}, st \in {0, 2, 5, 10, 11, U8Max}, i \in {0, 7}}

\* the buffers given to DfuStatusResponse::from_bytes
StatusInputs == {Resize(d, n) : d \in StatusSamples, n \in 0..MaxStatusLen}

\* two bytes of a u16 field, low byte first
U16Samples == {<<0, 0>>, <<1, 0>>, <<0, 1>>, <<U8Max, U8Max>>}

\* 9-byte functional descriptors: with and without the length and type
\* bytes, every setting of the four capability bits alone and with the upper
\* bits set, and the three u16 fields
DescSamples ==
    {h \o <<a>> \o d \o t \o v :
        h \in {<<9, 33>>, <<0, 0>>}, a \in (0..15) \cup {16, 240, U8Max},
        d \in U16Samples, t \in U16Samples, v \in U16Samples}

\* the buffers given to DfuFunctionalDescriptor::from_bytes
DescInputs == {Resize(d, n) : d \in DescSamples, n \in 0..MaxDescLen}

\* DfuStatusResponse::from_bytes(&data)
ParseStatus ==
    /\ q_op = "status"
    /\ ~q_done
    /\ q_done' = TRUE
    /\ LET r == DfuStatusResponse_from_bytes(q_data) IN
       q_out' = [QNoResult EXCEPT !.parsed = r.parsed, !.status = r.status,
                                  !.poll_timeout = r.poll_timeout, !.state = r.state,
                                  !.i_string = r.i_string]
    /\ UNCHANGED <<q_op, q_data, scan_vars, not_parse>>

\* DfuFunctionalDescriptor::from_bytes(&data)
ParseFunctional ==
    /\ q_op = "functional"
    /\ ~q_done
    /\ q_done' = TRUE
    /\ LET r == DfuFunctionalDescriptor_from_bytes(q_data) IN
       q_out' = [QNoResult EXCEPT !.parsed = r.parsed, !.will_detach = r.will_detach,
                                  !.manifestation_tolerant = r.manifestation_tolerant,
                                  !.can_upload = r.can_upload,
                                  !.can_download = r.can_download,
                                  !.detach_timeout = r.detach_timeout,
                                  !.transfer_size = r.transfer_size,
                                  !.dfu_version = r.dfu_version]
    /\ UNCHANGED <<q_op, q_data, scan_vars, not_parse>>

\* DfuState::from_byte(b) and is_dfu_mode() of the state decoded
ParseState ==
    /\ q_op = "state"
    /\ ~q_done
    /\ q_done' = TRUE
    /\ LET s == DfuState_from_byte(q_data[1]) IN
       q_out' = [QNoResult EXCEPT !.parsed = TRUE, !.state = s,
                                  !.is_dfu_mode = DfuState_is_dfu_mode(s)]
    /\ UNCHANGED <<q_op, q_data, scan_vars, not_parse>>

InitParse ==
    /\ DfuNew(0)
    /\ BulkIdle
    /\ XferIdle
    /\ WriterIdle
    /\ ReaderIdle
    /\ PollerIdle
    /\ ClassIdle
    /\ ScanIdle
    /\ \/ \E data \in StatusInputs : ParseNew("status", data)
       \/ \E data \in DescInputs : ParseNew("functional", data)
       \/ \E b \in 0..U8Max : ParseNew("state", <<b>>)

NextParse ==
    \/ ParseStatus
    \/ ParseFunctional
    \/ ParseState

SpecParse == InitParse /\ [][NextParse]_vars

----------------------------------------------------------------------------
(* Reading the history of write() and read_exact().                        *)

\* the underlying calls issued so far, those of the slice in hand included
AllCalls == x_ios \o (IF x_pc = "single" THEN SliceCalls ELSE <<>>)
XReturned == x_pc = "idle" /\ x_result.tag # "none"

RECURSIVE SumBytes(_)
SumBytes(calls) ==
    IF calls = <<>> THEN 0
    ELSE (IF Head(calls).ok THEN Head(calls).bytes ELSE 0) + SumBytes(Tail(calls))

IsShort(c) == c.ok /\ c.bytes < c.len

----------------------------------------------------------------------------
(* C11.  With a chunk size C >= 1, write() on a buffer of L bytes issues   *)
(* its underlying writes over consecutive slices of the buffer in order,   *)
(* each of min(C, rest) bytes (a write that failed with a retryable error  *)
(* is issued again over the same slice); no write follows a write that     *)
(* accepted fewer bytes than offered; write() returns Ok with the sum of   *)
(* the bytes accepted (L when no write was short) unless a write's error   *)
(* is what it returns.                                                     *)

C11_ChunkedWrite ==
    (x_op = "write" /\ x_has_chunk /\ x_chunk >= 1) =>
        LET w == AllCalls IN
        /\ \A i \in 1..Len(w) :
              /\ w[i].fn = "bulk_write"
              /\ w[i].len >= 1 /\ w[i].len <= x_chunk
              /\ w[i].len = Min(x_chunk, x_len - w[i].off)
              /\ w[i].off = (IF i = 1 THEN 0
                             ELSE IF w[i - 1].ok THEN w[i - 1].off + w[i - 1].len
                             ELSE w[i - 1].off)
        /\ \A i \in 1..(Len(w) - 1) : ~IsShort(w[i])
        /\ XReturned =>
              /\ x_result.tag \in {"ok", "err"}
              /\ x_result.tag = "err" <=> (w # <<>> /\ ~w[Len(w)].ok)
              /\ x_result.tag = "ok" =>
                    /\ x_result.value = SumBytes(w)
                    /\ (\A i \in 1..Len(w) : ~IsShort(w[i])) => x_result.value = x_len

C11_Witness ==
    /\ x_op = "write"
    /\ x_has_chunk
    /\ x_chunk = 1
    /\ x_len = 3
    /\ XReturned
    /\ Len(x_ios) = 2
    /\ x_ios[1].ok /\ x_ios[1].bytes = 1
    /\ x_ios[2].ok /\ x_ios[2].bytes = 0
    /\ x_result = BOk(1)

----------------------------------------------------------------------------
(* C12.  read_exact() returns success only when the bytes returned by its  *)
(* underlying reads add up to the buffer length; each underlying read      *)
(* targets the next unfilled offset and asks for min(remaining, chunk      *)
(* size) bytes; a read of zero bytes while the buffer is not full makes    *)
(* read_exact() return an error.                                           *)

C12_ReadExact ==
    (x_op = "read_exact") =>
        LET r == AllCalls IN
        /\ \A i \in 1..Len(r) :
              /\ r[i].fn = "bulk_read"
              /\ r[i].off = SumBytes(SubSeq(r, 1, i - 1))
              /\ r[i].off < x_len
              /\ r[i].len = Min(x_len - r[i].off, ReadChunk)
        /\ (XReturned /\ x_result.tag = "ok") => SumBytes(r) = x_len
        /\ \A i \in 1..Len(r) :
              (r[i].ok /\ r[i].bytes = 0) =>
                  /\ i = Len(r)
                  /\ x_pc = "idle" => x_result = BErr(ShortRead)

C12_Witness ==
    /\ x_op = "read_exact"
    /\ x_has_chunk
    /\ x_chunk = 2
    /\ x_len = 3
    /\ XReturned
    /\ Len(x_ios) = 2
    /\ x_ios[1].ok /\ x_ios[1].bytes = 1
    /\ x_ios[2].ok /\ x_ios[2].bytes = 0
    /\ x_result = BErr(ShortRead)

----------------------------------------------------------------------------
(* Reading the history of a BulkWriter.                                    *)

WriterAllOk == \A i \in 1..Len(w_out) : w_out[i].ok
\* the step issues a device write
WriterSends == Len(w_out') = Len(w_out) + 1
WriterSent == w_out'[Len(w_out')]

----------------------------------------------------------------------------
(* C13.  When every device write succeeds, the payloads of the device      *)
(* writes, followed by what is still buffered and by what write() has not  *)
(* yet visited, are the bytes passed to write() in order; once the writer  *)
(* has been dropped the payloads alone are those bytes.                    *)

C13_NoByteLost ==
    WriterAllOk =>
        /\ Concat(w_out) \o w_buffer \o w_rest = w_in
        /\ ~w_alive => Concat(w_out) = w_in

C13_Witness ==
    /\ ~w_alive
    /\ WriterAllOk
    /\ w_size = 2
    /\ Len(w_in) = 3
    /\ Len(w_out) = 2
    /\ Len(w_out[2].data) = 1
    /\ Concat(w_out) = w_in

----------------------------------------------------------------------------
(* C14.  When BulkWriter::write issues a device write.                     *)

\* C14 as stated: write() issues a device write exactly when the buffer
\* reaches the capacity, sending exactly capacity bytes and emptying the
\* buffer; flush() on an empty buffer issues no device write
C14_AsStated ==
    [][/\ w_pc = "push" =>
             /\ WriterSends <=> Len(w_buffer) + 1 = w_size
             /\ WriterSends => (Len(WriterSent.data) = w_size /\ w_buffer' = <<>>)
       /\ (w_pc # "push" /\ w_buffer = <<>>) => ~WriterSends
      ]_vars

\* C14 as amended: write() issues a device write exactly when, after a byte
\* has been buffered, the buffer holds at least capacity bytes; the write
\* sends the whole buffer, which is exactly capacity bytes when the
\* capacity is at least 1 and no earlier device write failed; the buffer is
\* emptied when the device write succeeds and kept when it fails, write()
\* then returning the error.  While fewer bytes are buffered write() issues
\* no device write; flush() and drop issue one exactly when the buffer is
\* not empty.
C14_WriterFlushes ==
    [][/\ w_pc = "push" =>
             LET pushed == Append(w_buffer, Head(w_rest)) IN
             /\ WriterSends <=> Len(pushed) >= w_size
             /\ ~WriterSends => w_buffer' = pushed /\ w_out' = w_out
             /\ WriterSends =>
                   /\ WriterSent.data = pushed
                   /\ (w_size >= 1 /\ WriterAllOk) => Len(pushed) = w_size
                   /\ WriterSent.ok => w_buffer' = <<>>
                   /\ ~WriterSent.ok =>
                         (w_buffer' = pushed /\ w_pc' = "idle" /\ w_result'.tag = "err")
       /\ w_pc # "push" =>
             /\ w_buffer = <<>> => w_out' = w_out
             /\ (w_pc = "flush" \/ w_op' \in {"flush", "drop"}) =>
                   (WriterSends <=> w_buffer # <<>>)
      ]_vars

C14_Witness ==
    /\ w_size = 1
    /\ w_op = "write"
    /\ w_pc = "idle"
    /\ Len(w_out) = 2
    /\ ~w_out[1].ok /\ Len(w_out[1].data) = 1
    /\ w_out[2].ok /\ Len(w_out[2].data) = 2
    /\ w_buffer = <<>>

----------------------------------------------------------------------------
(* Reading the history of a BulkReader.                                    *)

\* the stream from the position at which the call in hand began
SinceStart == SubSeq(r_dev, r_start + 1, Len(r_dev))
\* the position in q of its first '\n', or 0
FirstLF(q) ==
    IF \E i \in 1..Len(q) : q[i] = LF
    THEN CHOOSE i \in 1..Len(q) : q[i] = LF /\ \A j \in 1..(i - 1) : q[j] # LF
    ELSE 0
\* the bytes before the first '\n' of q, less one '\r' right before it
UpToLF(q) ==
    LET i == FirstLF(q) IN
    IF i >= 2 /\ q[i - 1] = CR THEN SubSeq(q, 1, i - 2) ELSE SubSeq(q, 1, i - 1)
ReadLineDone == r_op = "read_line" /\ r_pc = "idle" /\ r_result.err # "UsbLib"

----------------------------------------------------------------------------
(* C15.  While no device read has failed, the bytes read() has delivered,  *)
(* followed by those of the call in progress and by the unread bytes of    *)
(* the buffer, are the bytes the device reads returned, in order; a device *)
(* read is issued only when the buffer holds no unread byte; and read()    *)
(* returns fewer bytes than asked for only after a zero-length device      *)
(* read.                                                                   *)

C15_ReaderStream ==
    /\ r_clean => r_out \o r_got \o Unread = r_dev
    /\ r_pc = "fill" => r_pos = Len(r_buffer)
    /\ (r_op = "read" /\ r_pc = "idle" /\ r_result.tag = "ok") =>
          /\ r_result.n <= r_want
          /\ r_result.n < r_want => r_zero

C15_Witness ==
    /\ r_op = "read"
    /\ r_pc = "idle"
    /\ r_clean
    /\ r_size = 2
    /\ r_want = 2
    /\ r_result.tag = "ok"
    /\ r_result.n = 1
    /\ r_zero
    /\ Len(r_dev) = 3
    /\ r_out = r_dev

----------------------------------------------------------------------------
(* C16.  What read_line() returns.                                         *)

\* C16 as stated: read_line() returns the bytes before the first '\n' of
\* the stream, less one '\r' right before it, and leaves the bytes after
\* the '\n' unread; when a zero-length device read comes before any '\n' it
\* returns the bytes accumulated so far
C16_AsStated ==
    ReadLineDone =>
        IF FirstLF(SinceStart) # 0
        THEN /\ r_result = ROk(UpToLF(SinceStart))
             /\ Unread = SubSeq(SinceStart, FirstLF(SinceStart) + 1, Len(SinceStart))
        ELSE /\ r_zero
             /\ r_result = ROk(SinceStart)
             /\ Unread = <<>>

\* C16 as amended: the same when the bytes of the line are UTF-8 text; when
\* they are not, read_line() returns a parse error, and the bytes up to and
\* including the '\n' have been consumed all the same
C16_ReadLine ==
    ReadLineDone =>
        LET text(line) == IF \A i \in 1..Len(line) : line[i] < 128
                          THEN ROk(line) ELSE RErr("Parse")
        IN  IF FirstLF(SinceStart) # 0
            THEN /\ r_result = text(UpToLF(SinceStart))
                 /\ Unread = SubSeq(SinceStart, FirstLF(SinceStart) + 1, Len(SinceStart))
            ELSE /\ r_zero
                 /\ r_result = text(SinceStart)
                 /\ Unread = <<>>

C16_Witness ==
    /\ ReadLineDone
    /\ r_size = 2
    /\ r_dev = <<255, CR, LF>>
    /\ r_start = 0
    /\ r_result = RErr("Parse")
    /\ Unread = <<>>

----------------------------------------------------------------------------
(* InterruptPoller.poll: callbacks, timeouts and errors.                   *)

\* the entry of the history at position i is the last one
PLast(i) == i = Len(p_log)

\* poll() has returned r
PollReturned(r) == p_pc = "idle" /\ p_result = r

\* C17: poll invokes the callback once for each successful interrupt read,
\* with exactly the bytes received; it returns Ok right after a callback
\* returns false, issuing no further read; after a Timeout it goes on to the
\* next read without invoking the callback; on any other error it stops and
\* returns that error.
C17_Poll ==
    /\ \A i \in 1..Len(p_log) :
        LET e == p_log[i] IN
        /\ e.ev = "read" =>
               IF PLast(i) THEN p_pc = "read"
               ELSE p_log[i + 1].ev \in {"data", "timeout"} \cup PollErrors
        /\ e.ev = "data" =>
               IF PLast(i) THEN p_pc = "callback"
               ELSE p_log[i + 1].ev = "callback" /\ p_log[i + 1].data = e.data
        /\ e.ev = "callback" =>
               /\ i > 1 /\ p_log[i - 1].ev = "data" /\ p_log[i - 1].data = e.data
               /\ IF e.ret
                  THEN IF PLast(i) THEN p_pc \in {"check", "loaded"} \/ PollReturned(POk)
                       ELSE p_log[i + 1].ev = "read"
                  ELSE PLast(i) /\ PollReturned(POk)
        /\ e.ev = "timeout" =>
               IF PLast(i) THEN p_pc \in {"check", "loaded"} \/ PollReturned(POk)
               ELSE p_log[i + 1].ev = "read"
        /\ e.ev \in PollErrors => PLast(i) /\ PollReturned(PErr(e.ev))
    /\ (p_pc = "idle" /\ p_result.tag = "err") =>
           p_log # <<>> /\ p_log[Len(p_log)].ev = p_result.err

\* a read timed out, the next one delivered fewer bytes than the buffer
\* holds, and the callback ended the polling
C17_Witness ==
    /\ PollReturned(POk)
    /\ Len(p_log) = 5
    /\ p_log[2].ev = "timeout"
    /\ p_log[4].ev = "data" /\ p_log[4].data # <<>> /\ Len(p_log[4].data) < p_size
    /\ p_log[5].ev = "callback" /\ ~p_log[5].ret

----------------------------------------------------------------------------
(* InterruptPoller.stop from another thread.                               *)

\* C18 as stated: once stop() has been called during the loop, poll()
\* starts no interrupt read.
C18_AsStated == p_stop_at # "-" => p_after = 0

\* C18: after a stop() during the loop, poll() starts no interrupt read,
\* except the one read it was about to start when the stop() landed between
\* the check of the flag and the read; stop() does not disturb the read or
\* the callback in progress; and poll() returns.
C18_Stop ==
    /\ [](p_stop_at \in {"check", "read", "callback"} => p_after = 0)
    /\ [](p_stop_at = "loaded" => p_after <= 1)
    /\ [][Stop => (p_pc' = p_pc /\ p_log' = p_log /\ p_buffer' = p_buffer)]_vars
    /\ (p_stop_at # "-") ~> (p_pc = "idle" /\ p_result # PNoResult)

\* stop() arrived while a read was in flight; the read delivered data, the
\* callback asked to go on, and poll() returned Ok without another read
C18_Witness ==
    /\ p_stop_at = "read"
    /\ PollReturned(POk)
    /\ p_log # <<>>
    /\ p_log[Len(p_log)].ev = "callback" /\ p_log[Len(p_log)].ret
    /\ p_reads < MaxPollReads

----------------------------------------------------------------------------
(* The classifier's result.                                                *)

\* the elements of a Vec
Range(q) == {q[i] : i \in 1..Len(q)}

\* classify has returned for the record in hand
Classified == c_pc = "classified"

\* C19: classify returns a non-empty collection without duplicates; it is
\* exactly {Unknown} when none of the ADB, Fastboot, AppleDevice and MTP
\* rules matches, and Unknown never appears together with another protocol.
C19_Classify ==
    Classified =>
        /\ c_result # <<>>
        /\ Cardinality(Range(c_result)) = Len(c_result)
        /\ Range(c_result) \subseteq {"Adb", "Fastboot", "AppleDevice", "Mtp", "Unknown"}
        /\ (~ (is_adb_device(c_rec) \/ is_fastboot_device(c_rec)
                 \/ is_apple_device(c_rec) \/ is_mtp_device(c_rec)))
              <=> (c_result = <<"Unknown">>)
        /\ "Unknown" \in Range(c_result) => c_result = <<"Unknown">>

\* a record that carries a tag and matches no rule has been classified
C19_Witness ==
    /\ Classified
    /\ c_result = <<"Unknown">>
    /\ c_rec.tags # <<>>

\* the protocol a recognized tag stands for
TagProtocol(tag) ==
    CASE eq_ignore_ascii_case(tag, s_adb) -> "Adb"
      [] eq_ignore_ascii_case(tag, s_fastboot) -> "Fastboot"
      [] eq_ignore_ascii_case(tag, s_apple) -> "AppleDevice"
      [] eq_ignore_ascii_case(tag, s_mtp) -> "Mtp"
      [] OTHER -> "Unknown"

\* C20: classify is monotonic in tags: after a recognized tag (in any letter
\* case) has been added, the result contains the tag's protocol and every
\* non-Unknown protocol returned before the tag was added.
C20_AsStated ==
    (Classified /\ c_added # <<>> /\ TagProtocol(c_added) # "Unknown") =>
        /\ TagProtocol(c_added) \in Range(c_result)
        /\ (Range(c_prev_result) \ {"Unknown"}) \subseteq Range(c_result)

----------------------------------------------------------------------------
(* The rules of the classifier, as the specification words them.           *)

\* the AppleDevice rule with its four alternatives independent of each other
\* and of the vendor id
AppleRuleAsStated(device) ==
    \/ device.vid = APPLE_VENDOR_ID /\ device.pid \in apple_device_pids
    \/ /\ device.manufacturer.some
       /\ contains(to_lowercase(device.manufacturer.v), s_apple)
    \/ /\ device.product.some
       /\ \/ contains(to_lowercase(device.product.v), s_iphone)
          \/ contains(to_lowercase(device.product.v), s_ipad)
          \/ contains(to_lowercase(device.product.v), s_ipod)
    \/ has_tag(device, s_apple)

\* C21: a record classifies as AppleDevice if any one of these holds,
\* independently of the others and of the vendor id: (vendor 0x05ac and a
\* listed product id), manufacturer contains "apple", product contains
\* "iphone", "ipad" or "ipod", or the tag "apple"; and not when none holds.
C21_AsStated ==
    Classified => (("AppleDevice" \in Range(c_result)) <=> AppleRuleAsStated(c_rec))

\* the record of a scenario: ids and class triple, no strings, no tags
Scenario(vid, pid, class, subclass, protocol) ==
    DeviceRecord(vid, pid, class, subclass, protocol, NoString, NoString, <<>>)

\* C22: classify returns protocol P exactly when P's rule holds on the
\* record, the four rules being evaluated independently and unioned; the
\* records 0x18d1:0x4ee2 with class 0xFF, 0x05ac:0x12a0, and class triple
\* 6/1/1 with nothing else matching yield exactly {Adb}, {AppleDevice} and
\* {Mtp}, and a record matching no rule yields exactly {Unknown}.
C22_AsStated ==
    Classified =>
        /\ ("Adb" \in Range(c_result)) <=> is_adb_device(c_rec)
        /\ ("Fastboot" \in Range(c_result)) <=> is_fastboot_device(c_rec)
        /\ ("AppleDevice" \in Range(c_result)) <=> AppleRuleAsStated(c_rec)
        /\ ("Mtp" \in Range(c_result)) <=> is_mtp_device(c_rec)
        /\ c_rec = Scenario(6353, 20194, SomeByte(255), NoByte, NoByte)
              => c_result = <<"Adb">>
        /\ c_rec = Scenario(APPLE_VENDOR_ID, 4768, NoByte, NoByte, NoByte)
              => c_result = <<"AppleDevice">>
        /\ c_rec = Scenario(4660, 1, SomeByte(6), SomeByte(1), SomeByte(1))
              => c_result = <<"Mtp">>
        /\ c_rec = Scenario(4660, 1, NoByte, NoByte, NoByte)
              => c_result = <<"Unknown">>

----------------------------------------------------------------------------
(* The scan's result.                                                      *)

\* the scan has returned
ScanDone == e_pc = "idle" /\ e_kind # "none"

\* C23: the scan returns success with a list for every combination of
\* per-device failures; it returns an error only when the transport context
\* or the device list cannot be obtained.
C23_ScanSucceeds ==
    ScanDone =>
        /\ e_result.tag \in {"ok", "err"}
        /\ e_result.tag = "err" <=> e_transport \in {"ctx_err", "list_err"}
        /\ e_result.tag = "err" => e_seen = <<>> /\ e_result.err = e_transport
        /\ e_result.tag = "ok" => Len(e_seen) = e_n /\ e_result.records = e_records

\* a scan returned an empty list although every kind of per-device failure
\* but one was met: the descriptor of one device and the language list of
\* another could not be read
C23_Witness ==
    /\ ScanDone
    /\ e_kind = "fallback"
    /\ e_result = EOk(<<>>)
    /\ Len(e_seen) = 2
    /\ ~e_seen[1].desc
    /\ e_seen[2].open /\ e_seen[2].langs = "err"

----------------------------------------------------------------------------
(* The parsers' results.                                                   *)

\* the parser named has returned
Parsed(name) == q_op = name /\ q_done

\* the bytes tried in place of one byte of the input
OtherBytes == {0, 1, 2, 128, U8Max}

\* C24: for every buffer of at least 6 bytes, status is decoded from byte 0
\* only, pollTimeout = byte1 + 256*byte2 + 65536*byte3 (below 2^24), state
\* is decoded from byte 4 only and stringIndex = byte 5, so changing one
\* input field never changes another output field; a buffer shorter than 6
\* bytes fails to parse.
C24_StatusResponse ==
    Parsed("status") =>
        IF Len(q_data) < 6 THEN ~q_out.parsed
        ELSE
            /\ q_out.parsed
            /\ q_out.status = DfuStatus_from_byte(q_data[1])
            /\ q_out.poll_timeout = q_data[2] + 256 * q_data[3] + 65536 * q_data[4]
            /\ q_out.poll_timeout < 16777216
            /\ q_out.state = DfuState_from_byte(q_data[5])
            /\ q_out.i_string = q_data[6]
            /\ \A k \in 1..Len(q_data), v \in OtherBytes :
                  LET other == DfuStatusResponse_from_bytes([q_data EXCEPT ![k] = v]) IN
                  /\ other.parsed
                  /\ k # 1 => other.status = q_out.status
                  /\ k \notin 2..4 => other.poll_timeout = q_out.poll_timeout
                  /\ k # 5 => other.state = q_out.state
                  /\ k # 6 => other.i_string = q_out.i_string

\* a 7-byte answer with all three timeout bytes and the state byte at 0xFF
\* has been parsed
C24_Witness ==
    /\ Parsed("status")
    /\ Len(q_data) = 7
    /\ q_out.poll_timeout = 16777215
    /\ q_out.state = "DfuError"
    /\ q_out.status = "Ok"

C26_StateDecoding ==
    Parsed("state") =>
        LET b == q_data[1] IN
        /\ b <= 9 => q_out.state = DfuStates[b + 1] /\ q_out.state # "DfuError"
        /\ b >= 10 => q_out.state = "DfuError"
        /\ \A i \in 1..Len(DfuStates), j \in 1..Len(DfuStates) :
              i # j => DfuStates[i] # DfuStates[j]
        /\ Len(DfuStates) = 11
        /\ \A i \in 1..Len(DfuStates) :
              DfuState_from_byte(DfuState_value(DfuStates[i])) = DfuStates[i]
        /\ DfuState_value(q_out.state) = (IF b <= 9 THEN b ELSE 10)
        /\ q_out.is_dfu_mode <=> q_out.state \notin {"AppIdle", "AppDetach"}

\* byte 1 has been decoded: AppDetach, not a DFU-mode state
C26_Witness ==
    /\ Parsed("state")
    /\ q_data = <<1>>
    /\ q_out.state = "AppDetach"
    /\ ~q_out.is_dfu_mode

----------------------------------------------------------------------------
(* C28.  wait_for_ready() decides each GETSTATUS answer by its status and  *)
(* state alone.                                                            *)

StatusPoll == Xfer(GETSTATUS, 0, <<>>, TRUE)

\* the step ends download() with error e right after its GETSTATUS
FailsWith(e) ==
    /\ pc' = "idle"
    /\ result' = e
    /\ wire' = Append(wire, StatusPoll)

\* the step ends the wait: the block is counted, the callback (if any) runs,
\* and download() goes on to the next block or to the closing DNLOAD
EndsWait ==
    /\ pc' \in {"dl_block", "dl_final"}
    /\ result' = NoResult
    /\ block_num' = block_num + 1
    /\ \A i \in 1..Len(NewEvents) : NewEvents[i].kind # "sleep"
    /\ NewEvents[1] = StatusPoll

\* C28: in the per-block wait-for-ready loop a parsed GETSTATUS answer is
\* decided by (status, state): a status other than OK ends download() with
\* the error "DFU error: <status>" whatever the state; with status OK,
\* DfuDnloadSync, DfuDnBusy and DfuManifestSync are followed by a sleep of
\* the reported poll timeout and another poll; DfuDnloadIdle, DfuIdle and
\* DfuManifest end the wait successfully; DfuError ends download() with the
\* error "DFU error state"; AppIdle, AppDetach, DfuManifestWaitReset and
\* DfuUploadIdle end it with the error "Unexpected state: <state>"
C28_WaitForReady ==
    [][(pc = "dl_wait" /\ last'.parsed) =>
         LET st == last'.status
             s == last'.state
         IN
         /\ st # "Ok" => FailsWith(ErrUnknown("DFU error: ", DfuStatus_name(st)))
         /\ (st = "Ok" /\ s \in {"DfuDnloadSync", "DfuDnBusy", "DfuManifestSync"}) =>
                /\ wire' = wire \o <<StatusPoll, Sleep(last'.poll_timeout)>>
                /\ pc' = "dl_wait"
                /\ result' = NoResult
                /\ block_num' = block_num
         /\ (st = "Ok" /\ s \in {"DfuDnloadIdle", "DfuIdle", "DfuManifest"}) => EndsWait
         /\ (st = "Ok" /\ s = "DfuError") => FailsWith(ErrUnknown("DFU error state", ""))
         /\ (st = "Ok" /\ s \in {"AppIdle", "AppDetach", "DfuManifestWaitReset",
                                  "DfuUploadIdle"}) =>
                FailsWith(ErrUnknown("Unexpected state: ", DfuState_name(s)))
         /\ s \in {DfuStates[i] : i \in 1..Len(DfuStates)}
      ]_vars

\* the wait loop slept 257 ms on a DfuDnloadSync answer and is polling again
C28_Witness ==
    /\ op = "download"
    /\ pc = "dl_wait"
    /\ last.parsed
    /\ last.status = "Ok"
    /\ last.state = "DfuDnloadSync"
    /\ Len(wire) >= 3
    /\ wire[Len(wire)] = Sleep(257)
    /\ wire[Len(wire) - 1] = StatusPoll

----------------------------------------------------------------------------
(* C29.  The closing empty DNLOAD of download() and the manifestation      *)
(* polling after it.                                                       *)

\* the step is followed by a sleep of ms milliseconds and another poll
RePollsAfter(ms) ==
    /\ wire' = wire \o <<StatusPoll, Sleep(ms)>>
    /\ pc' = "dl_manifest"
    /\ result' = NoResult

\* the step ends download() successfully right after its GETSTATUS
Succeeds ==
    /\ pc' = "idle"
    /\ result' = Ok(<<>>)
    /\ wire' = Append(wire, StatusPoll)

\* the closing DNLOAD: download() leaves the block loop for it exactly when
\* the data blocks sent are the whole firmware; it is the first DNLOAD with
\* an empty payload, its block number is the number of data blocks sent, and
\* after it no DNLOAD follows
ClosingDnload ==
    /\ (pc = "dl_wait" /\ pc' \in {"dl_block", "dl_final"}) =>
          (pc' = "dl_final" <=> Concat(DataBlocks) = firmware)
    /\ pc = "dl_final" =>
          /\ Concat(DataBlocks) = firmware
          /\ ~ClosingSent
          /\ \E ok \in BOOLEAN :
                /\ wire' = Append(wire, Xfer(DNLOAD, Len(DataBlocks), <<>>, ok))
                /\ pc' = IF ok THEN "dl_manifest" ELSE "idle"
    /\ pc = "dl_manifest" =>
          /\ Len(SelectSeq(wire, LAMBDA e : IsXfer(e, DNLOAD) /\ e.data = <<>>)) = 1
          /\ \A i \in 1..Len(NewEvents) : ~IsXfer(NewEvents[i], DNLOAD)

\* C29 as stated: after the last data block has been acknowledged download()
\* issues exactly one empty DNLOAD numbered with the count of data blocks,
\* then polls GETSTATUS: success at an answer with status OK and state
\* DfuManifestWaitReset or DfuIdle, another poll after the reported poll
\* timeout on DfuManifest or DfuManifestSync, and another poll after 100 ms
\* on every other answer
C29_AsStated ==
    [][/\ ClosingDnload
       /\ (pc = "dl_manifest" /\ last'.parsed) =>
            LET final == last'.status = "Ok"
                            /\ last'.state \in {"DfuManifestWaitReset", "DfuIdle"}
                busy == last'.state \in {"DfuManifest", "DfuManifestSync"}
            IN
            /\ final => Succeeds
            /\ busy => RePollsAfter(last'.poll_timeout)
            /\ (~final /\ ~busy) => RePollsAfter(100)
      ]_vars

\* C29 as amended: the same closing DNLOAD; in the polling after it an answer
\* with a status other than OK ends download() with the error "Manifestation
\* error: <status>" whatever the state; with status OK, DfuManifestWaitReset
\* and DfuIdle end download() successfully, DfuManifest and DfuManifestSync
\* are followed by a sleep of the reported poll timeout and another poll,
\* and every other state by a sleep of 100 ms and another poll
C29_Manifestation ==
    [][/\ ClosingDnload
       /\ (pc = "dl_manifest" /\ last'.parsed) =>
            LET st == last'.status
                s == last'.state
            IN
            /\ st # "Ok" =>
                  FailsWith(ErrUnknown("Manifestation error: ", DfuStatus_name(st)))
            /\ (st = "Ok" /\ s \in {"DfuManifestWaitReset", "DfuIdle"}) => Succeeds
            /\ (st = "Ok" /\ s \in {"DfuManifest", "DfuManifestSync"}) =>
                  RePollsAfter(last'.poll_timeout)
            /\ (st = "Ok" /\ s \notin {"DfuManifestWaitReset", "DfuIdle", "DfuManifest",
                                        "DfuManifestSync"}) => RePollsAfter(100)
      ]_vars

\* a download of two blocks succeeded: the closing DNLOAD carried number 2,
\* the first poll was followed by a sleep of 16 ms, the second reported
\* DfuManifestWaitReset
C29_Witness ==
    /\ op = "download"
    /\ Returned
    /\ result = Ok(<<>>)
    /\ Len(DataBlocks) = 2
    /\ last.status = "Ok"
    /\ last.state = "DfuManifestWaitReset"
    /\ Len(wire) >= 4
    /\ wire[Len(wire)] = StatusPoll
    /\ wire[Len(wire) - 1] = Sleep(16)
    /\ wire[Len(wire) - 2] = StatusPoll
    /\ wire[Len(wire) - 3] = Xfer(DNLOAD, 2, <<>>, TRUE)

----------------------------------------------------------------------------
(* C30.  The ABORT and GETSTATUS at the head of download() and upload().   *)

\* download() or upload() is running
InBlockOp == op \in {"download", "upload"} /\ pc # "idle"
\* the request that moves a block in the running operation
BlockReq == IF op = "download" THEN DNLOAD ELSE UPLOAD
\* the step ends the operation with an error
ReturnsErr == pc' = "idle" /\ result'.tag = "err"

\* C30: download() and upload() start with an empty history and the cached
\* state untouched, so that until the first request the cached state is the
\* one at the time of the call.  If it is not DfuIdle the first request is
\* ABORT, the second is GETSTATUS and the third is the first DNLOAD/UPLOAD;
\* if it is DfuIdle the first request is the DNLOAD/UPLOAD.  A failed ABORT
\* or GETSTATUS ends the operation with an error, no block transferred
C30_EnsureIdle ==
    [][/\ (pc = "idle" /\ pc' # "idle" /\ op' \in {"download", "upload"}) =>
            wire' = <<>> /\ state' = state
       /\ (InBlockOp /\ wire = <<>>) =>
            IF state # "DfuIdle"
            THEN \E ok \in BOOLEAN :
                    /\ wire' = <<Xfer(ABORT, 0, <<>>, ok)>>
                    /\ ~ok => ReturnsErr
                    /\ ok => pc' # "idle"
            ELSE Len(wire') >= 1 /\ IsXfer(wire'[1], BlockReq)
       /\ (InBlockOp /\ Len(wire) = 1 /\ IsXfer(wire[1], ABORT)) =>
            \E ok \in BOOLEAN :
               /\ wire' = Append(wire, Xfer(GETSTATUS, 0, <<>>, ok))
               /\ ~ok => ReturnsErr
               /\ ok => pc' # "idle"
       /\ (InBlockOp /\ Len(wire) = 2 /\ IsXfer(wire[1], ABORT)) =>
            Len(wire') >= 3 /\ IsXfer(wire'[3], BlockReq)
      ]_vars

\* an upload called in a state other than DfuIdle has sent ABORT, GETSTATUS
\* and its first UPLOAD
C30_Witness ==
    /\ op = "upload"
    /\ Len(wire) >= 3
    /\ wire[1] = Xfer(ABORT, 0, <<>>, TRUE)
    /\ wire[2] = StatusPoll
    /\ IsXfer(wire[3], UPLOAD)
    /\ wire[3].value = 0

----------------------------------------------------------------------------
(* C31.  The cached state when the first block request goes out.           *)

\* the step issues the first DNLOAD/UPLOAD of the running operation
FirstBlockStep ==
    /\ InBlockOp
    /\ \A i \in 1..Len(wire) : ~IsXfer(wire[i], BlockReq)
    /\ \E i \in 1..Len(NewEvents) : IsXfer(NewEvents[i], BlockReq)

\* C31 as stated: whenever download() or upload() issues its first DNLOAD or
\* UPLOAD request the cached state is DfuIdle
C31_AsStated ==
    [][FirstBlockStep => state = "DfuIdle"]_vars

----------------------------------------------------------------------------
(* C32.  Which candidates the scan keeps, and with which strings.          *)

\* the record the statement gives the device at position dev on outcome o:
\* none when the descriptor cannot be read; strings absent when the device
\* cannot be opened or its language list cannot be read; otherwise each
\* string present exactly when it can be read
StatedRecord(dev, o) ==
    IF ~o.desc THEN <<>>
    ELSE IF ~o.open \/ o.langs # "ok"
    THEN <<ScanRecord(dev, NoString, NoString, NoString)>>
    ELSE <<WithStrings(dev, o)>>

RECURSIVE StatedRecords(_, _)
StatedRecords(seen, n) ==
    IF n = 0 THEN <<>>
    ELSE StatedRecords(seen, n - 1) \o StatedRecord(n, seen[n])

\* C32 as stated: the scan omits a candidate only when its device descriptor
\* cannot be read; a device that cannot be opened, or whose language list
\* cannot be read, is kept with the three strings absent; otherwise each
\* string is present or absent on its own; the records are in the order in
\* which the transport returned the devices
C32_AsStated ==
    e_records = StatedRecords(e_seen, Len(e_seen))

----------------------------------------------------------------------------
(* C33.  Progress of download()'s block loop.                              *)

\* the step completes a pass of the block loop of a download of a non-empty
\* firmware: the device answered the poll with status OK and DfuDnloadIdle
BlockPass ==
    /\ op = "download"
    /\ pc = "dl_wait"
    /\ firmware # <<>>
    /\ last'.parsed
    /\ last'.status = "Ok"
    /\ last'.state = "DfuDnloadIdle"

\* C33 as stated: for every transfer size, 0 included, every pass of the
\* block loop strictly increases the offset into the firmware, so that
\* download() leaves the loop after at most Len(firmware) passes
C33_AsStated ==
    [][BlockPass => (offset' > offset /\ offset' <= Len(firmware))]_vars

----------------------------------------------------------------------------
(* C34.  The length of what upload() returns.                              *)

\* C34 as stated: the bytes returned by upload(max_size) are never more than
\* max_size
C34_AsStated ==
    (op = "upload" /\ Returned /\ result.tag = "ok") => Len(result.value) <= max_size

----------------------------------------------------------------------------
(* C35.  The block numbers of a transfer of more than 65535 blocks.        *)

\* with transfer size 1, the blocks transferred so far in the operation
BlocksDone == IF op = "download" THEN offset ELSE Len(up_firmware)

\* C35 as stated: the block number of every DNLOAD and UPLOAD request is the
\* number of blocks already transferred in the operation, and the block
\* counter never overflows (shown for transfer size 1)
C35_AsStated ==
    [][(op \in {"download", "upload"} /\ transfer_size = 1 /\ pc # "idle") =>
         /\ \A i \in 1..Len(NewEvents) :
               IsXfer(NewEvents[i], BlockReq) => NewEvents[i].value = BlocksDone
         /\ result' # Panicked
      ]_vars

----------------------------------------------------------------------------
(* C36.  What flush() does with bytes the device did not accept.           *)

\* the step issued a device write that accepted fewer bytes than offered
ShortWriteStep ==
    /\ Len(w_out') = Len(w_out) + 1
    /\ w_out'[Len(w_out')].ok
    /\ w_out'[Len(w_out')].bytes < Len(w_out'[Len(w_out')].data)

\* the bytes of the step's device write that the device did not accept
Unaccepted ==
    LET d == w_out'[Len(w_out')] IN SubSeq(d.data, d.bytes + 1, Len(d.data))

\* C36 as stated: when the bulk write of a flush reports fewer bytes written
\* than the buffer holds, the unaccepted bytes stay at the head of the
\* buffer or the operation reports an error
C36_AsStated ==
    [][ShortWriteStep =>
          \/ IsPrefix(Unaccepted, w_buffer')
          \/ w_result'.tag = "err"
      ]_vars

----------------------------------------------------------------------------
(* C37.  The stream position after a read() that failed.                   *)

\* the step is a device read that fails inside read()
ReadFailsStep ==
    /\ r_op = "read"
    /\ r_pc = "fill"
    /\ r_result'.tag = "err"

\* the stream position after the step: the bytes the device has returned
\* less those still unread in the buffer
PositionAfter == Len(r_dev') - (Len(r_buffer') - r_pos')

\* C37 as stated: a read() in which a device read fails leaves the stream
\* position where it was when the call began, so that the bytes buffered
\* before the call are delivered by the next read
C37_AsStated ==
    [][ReadFailsStep => PositionAfter = r_start]_vars

----------------------------------------------------------------------------
(* C38.  A stop() that arrives before poll() has set its flag.             *)

\* C38 as stated: no stop() is lost.  A stop() that arrives after poll() was
\* entered and before it stored true into the flag finds no interrupt read
\* issued, so poll() issues none and returns Ok; a stop() that arrives in
\* the loop is followed by no read but the one about to start
C38_AsStated ==
    /\ p_early => p_reads = 0
    /\ (p_early /\ p_pc = "idle") => p_result = POk
    /\ p_stop_at \in {"check", "read", "callback"} => p_after = 0
    /\ p_stop_at = "loaded" => p_after <= 1

----------------------------------------------------------------------------
(* C40.  is_running() and the execution of poll().                         *)

\* InterruptPoller::is_running
is_running == p_running

\* C40 as stated: is_running() is false whenever no poll() is executing (a
\* new poller, or poll() has returned for any reason), and true while the
\* loop of poll() executes and no stop() has been called
C40_AsStated ==
    /\ p_pc = "idle" => ~is_running
    /\ (InLoop /\ p_stop_at = "-" /\ ~p_early) => is_running

----------------------------------------------------------------------------
(* C39.  The size of the BulkWriter's buffer.                              *)

\* C39 as stated: a BulkWriter of capacity >= 1 never holds more than
\* capacity bytes in its buffer, also after a write or flush that failed
C39_AsStated ==
    w_size >= 1 => Len(w_buffer) <= w_size

============================================================================
